---- MODULE Spec2Model ----
(***************************************************************************)
(* The Sound of Silence: the per-track looping engine (LoopingSound), its   *)
(* lifecycle manager and the runtime-state registry.                        *)
(*                                                                          *)
(* Time is counted in ticks of 10 ms, so that EPSILON (0.01 s) is 1 tick.   *)
(* Scheduled callbacks (Sound.schedule) and the handoff wait carry the      *)
(* number of ticks left and fall due when it reaches 0. The settle delay,   *)
(* the position polls and the 100 ms retries complete after an arbitrary    *)
(* delay; loads, play starts and the 50 ms start delay resolve within the   *)
(* tick.                                                                    *)
(*                                                                          *)
(* Spec is one LoopingSound instance under user commands and engine         *)
(* failures; SpecLoop is the same instance left alone, with a fair event    *)
(* loop; SpecSelect evaluates the boundary timer's segment selection;       *)
(* SpecLife is the lifecycle manager with the instances it makes for one    *)
(* track; SpecStable is the start at the first segment with its             *)
(* position-stabilisation wait, polls taking their time. SpecSeq is the     *)
(* sequence numbers of replicated commands, SpecCommands the loop commands  *)
(* of a track's controls, SpecCrossfade the playlist crossfade timer,       *)
(* SpecSilence the silent gaps and the looper's advance to the next track,  *)
(* SpecCleanup the coordinated State.cleanup.                               *)
(***************************************************************************)
EXTENDS Integers, Sequences, FiniteSets, TLC

\* ------------------------------------------------------------------ bounds
Dur == 13
MaxTasks == 2
MaxOrphans == 1
MaxLoopCount == 2
MaxIter == 1
MaxCommands == 1
MaxInstances == 3
MaxSegments == 3
MaxStart == 4
\* The track length and the stale position reads of the runs that watch the
\* position-stabilisation wait.
StableDur == 60
MaxStale == 3

\* ------------------------------------------------------- program constants
EPSILON == 1
POSITION_CHECK_TOLERANCE == 50
POSITION_CHECK_REQUIRED == 3
POSITION_CHECK_INTERVAL == 5
HANDOFF_BUFFER == 5
\* crossfadeMs || 1000 of _skipToSegment
DefaultCrossfadeMs == 100

Null == 0

TaskIds == 1..MaxTasks

\* The Sound objects, by the place that creates them: the host's sound of the
\* track, the one start() creates to skip the intro, and the alternate buffers
\* that the calls of _prepareTargetSound create.
HostSound == 1
FreshSound == 2
AltSound(k) == 2 + k
SoundIds == 1..(2 + MaxTasks)

\* ------------------------------------------------------------ configuration
Seg(s, e, x, n, k) ==
  [startSec |-> s, endSec |-> e, crossfadeMs |-> x, loopCount |-> n, skipToNext |-> k]

\* One segment, or two of which the second loops once; ordered by startSec and
\* non-overlapping, as the configuration sheet saves them. In the third set the
\* first segment is short and skips into a second one that outlasts the handoff;
\* in the last the crossfade is as long as the segment.
LoopConfigs ==
  { [segments |-> << Seg(2, 10, 1, n, k) >>, startFromBeginning |-> b] :
      n \in 0..MaxLoopCount, k \in BOOLEAN, b \in BOOLEAN }
  \cup
  { [segments |-> << Seg(2, 10, 1, n, k), Seg(Dur - 2, Dur, 1, 1, FALSE) >>,
     startFromBeginning |-> TRUE] :
      n \in 0..MaxLoopCount, k \in BOOLEAN }
  \cup
  { [segments |-> << Seg(2, 4, 1, 1, TRUE), Seg(5, Dur, 1, 1, FALSE) >>,
     startFromBeginning |-> TRUE] }
  \cup
  { [segments |-> << Seg(2, 4, 2, 2, FALSE) >>, startFromBeginning |-> TRUE] }

VARIABLES
  config,    \* LoopingSound.config: the validated loop configuration
  looper,    \* the fields of the LoopingSound instance
  orphans,   \* armed crossfade callbacks that no handle refers to any more
  tasks,     \* the suspended asynchronous continuations
  sounds,    \* the audio primitives (Sound objects)
  ps,        \* the PlaylistSound document: its public sound handle and playing flag
  log,       \* the run's record: the last loopEnd hook, the handoffs done in the
             \* segment, the destroy() call and the pause the run has seen
  budget,    \* how many more commands and engine failures the run may see
  life,      \* the lifecycle manager's view of one track: State._activeLoopers'
             \* entry, the LoopingSound instances made for it, ps.playing
  pick,      \* one evaluation of the boundary timer's segment selection
  sequences, \* utils.js ACTION_SEQUENCES on the issuing and on a receiving client,
             \* with the commands issued and the commands applied so far
  xfade,     \* the playlist's automatic crossfade: State._crossfadeTimers and
             \* State._playWaiters, the scheduleCrossfade calls and their timers
  gaps,      \* the playlist's silent gaps: State._silentGaps and the playSilence
             \* calls with their timers and promises
  cleanups   \* what the last State.cleanup call did, in the order it did it

vars == <<config, looper, orphans, tasks, sounds, ps, log, budget, life, pick, sequences,
          xfade, gaps, cleanups>>

\* The playlist-level state, which the LoopingSound and its manager leave alone.
PlaylistVars == <<sequences, xfade, gaps, cleanups>>

\* How many playlists, commands per playlist and accepted commands a run has.
MaxPlaylists == 2
MaxIssued == 2
MaxApplied == 2
Playlists == 1..MaxPlaylists

\* How many loop commands a run issues from the track's controls.
MaxWithin == 2

\* The loop commands of one track's controls: what State.getActiveLooper holds
\* for the track (registered, isDestroyed, activeLoopSegment; 0: none), how many
\* segments Flags.getLoopConfig returns, the looper calls and setFlag requests
\* made, in order, the requests in flight and the records written; last is the
\* command invoked last and flip changes with every invocation.
NoWithin ==
  [registered |-> FALSE, isDestroyed |-> FALSE, activeLoopSegment |-> 0, segments |-> 1,
   trace |-> << >>, pending |-> << >>, flags |-> << >>,
   last |-> [flip |-> FALSE, command |-> "none", isGM |-> FALSE], left |-> MaxWithin]

InitSequences ==
  [gm |-> <<>>, client |-> <<>>,
   issued |-> [p \in Playlists |-> <<>>],
   applied |-> [p \in Playlists |-> <<>>],
   deleted |-> [p \in Playlists |-> FALSE],
   within |-> NoWithin]

\* How many tracks the playlist has, how many scheduleCrossfade calls can be
\* suspended or have a timer or listener outstanding, and how many times a run
\* starts a track or a loop.
MaxTracks == 2
MaxCalls == 2
MaxPlays == 3
Tracks == 1..MaxTracks
Calls == 1..MaxCalls

NoCall == [pc |-> "none", ps |-> 0, timer |-> FALSE]

InitXfade ==
  [reg |-> 0, waiter |-> 0, listeners |-> << >>,
   call |-> [c \in Calls |-> NoCall],
   snd |-> [t \in Tracks |-> "none"],
   fading |-> [t \in Tracks |-> FALSE],
   plays |-> MaxPlays]

\* How many playSilence calls a run makes.
MaxGaps == 3
Gaps == 1..MaxGaps

\* A playSilence call: where it is, its AudioTimeout, state.cancelled, the
\* promise it returned, state.sourceSound (0: none was passed) and the gap
\* track it created.
NoGap == [pc |-> "none", timer |-> "none", cancelled |-> FALSE, promise |-> "none",
          sourceSound |-> 0, gap |-> "none", wasPlaying |-> FALSE]

\* The last advance of the playlist: who made it (a gap's timer callback or the
\* looper's _fadeOutAndAdvance), what it did and what the registry held then;
\* flip changes with every advance.
ByLooper == MaxGaps + 1
NoAdvance == [flip |-> FALSE, by |-> 0, kind |-> "none", track |-> 0, reg |-> 0]

\* The _fadeOutAndAdvance call of the looper of LoopTrack.
NoFadeOut == [pc |-> "none", mode |-> "none", isGM |-> FALSE, track |-> 0, gap |-> 0,
              isDestroyed |-> FALSE, isAborted |-> FALSE, faded |-> FALSE,
              advanced |-> 0]

\* reg: State._silentGaps' entry for the playlist (0: none); playing:
\* playlist.playing; completed changes with every silenceEnd hook emitted with
\* completed: true, teardowns with every teardownGap call.
InitGaps ==
  [reg |-> 0, g |-> [i \in Gaps |-> NoGap], playing |-> TRUE,
   completed |-> FALSE, teardowns |-> FALSE, advance |-> NoAdvance, fo |-> NoFadeOut]

InitCleanups == [trace |-> << >>, options |-> << >>]

PlaylistIdle ==
  /\ sequences = InitSequences /\ xfade = InitXfade
  /\ gaps = InitGaps /\ cleanups = InitCleanups

\* The world a LoopingSound method reads and writes; ovf marks a run that would
\* need more continuations or timers than the bounds allow.
\* log.trigger names the segment the step just taken has entered, so every step
\* starts with it cleared.
World == [C |-> config, L |-> looper, O |-> orphans, K |-> tasks, S |-> sounds,
          P |-> ps, E |-> [log EXCEPT !.trigger = 0], ovf |-> FALSE]

\* A timer handle that holds no armed timer (null, fired or cancelled).
NoTimer == [kind |-> "none", remaining |-> 0, seg |-> 0]
FreeTask == [kind |-> "none", pc |-> "none", src |-> Null, tgt |-> Null, seg |-> 0,
             crossfadeMs |-> 0, timer |-> "none", remaining |-> 0, n |-> 0]
FreeSound == [st |-> "none", pos |-> 0]

Min(S) == CHOOSE x \in S : \A y \in S : x <= y

\* ------------------------------------------------------------------ sounds
Playing(w, s) == s \in SoundIds /\ w.S[s].st = "playing"

\* Sound.stop via safeStop: a missing sound is ignored.
safeStop(w, s) ==
  IF s \in SoundIds /\ w.S[s].st # "none"
    THEN [w EXCEPT !.S[s] = [st |-> "stopped", pos |-> 0]]
    ELSE w

\* new foundry.audio.Sound(path)
NewSound(w, s) ==
  IF w.S[s].st # "none" THEN [w EXCEPT !.ovf = TRUE]
  ELSE [w EXCEPT !.S[s] = [st |-> "stopped", pos |-> 0]]

\* ------------------------------------------------------------------ timers
\* mainSchedule?.timeout?.cancel()
CancelMain(w) == [w EXCEPT !.L.mainSchedule = NoTimer]

\* An AudioTimeout is cancelled: the continuation that awaits it learns of it.
CancelSettle(w) ==
  [w EXCEPT !.L.loopCrossfadeTimer = NoTimer,
            !.K.settle.timer = IF @ = "armed" THEN "cancelled" ELSE @]

\* loopCrossfadeTimer?.timeout?.cancel(): only a Sound.schedule promise carries
\* .timeout; the settle timer of the hybrid schedule is an AudioTimeout.
CancelCrossfadeScheduled(w) ==
  IF w.L.loopCrossfadeTimer.kind = "xfade"
    THEN [w EXCEPT !.L.loopCrossfadeTimer = NoTimer] ELSE w

\* handoffTimer?.cancel(); the handle keeps the cancelled timer.
CancelHandoff(w) ==
  IF w.L.handoffTimer \in TaskIds
    THEN [w EXCEPT !.K.x[w.L.handoffTimer].timer = "cancelled",
                   !.K.x[w.L.handoffTimer].remaining = 0, !.L.handoffTimer = Null]
    ELSE w

\* safeCancelTimer: timer.timeout.cancel() if there is one, else timer.cancel().
safeCancelCrossfade(w) ==
  IF w.L.loopCrossfadeTimer.kind = "settle" THEN CancelSettle(w)
  ELSE CancelCrossfadeScheduled(w)

\* The sorted list of the remaining ticks of the orphaned callbacks.
Insert(seq, v) ==
  LET less == {i \in 1..Len(seq) : seq[i] <= v}
      n == Cardinality(less)
  IN SubSeq(seq, 1, n) \o <<v>> \o SubSeq(seq, n + 1, Len(seq))

\* this.loopCrossfadeTimer = h: an armed callback the handle held stays armed.
SetCrossfadeTimer(w, h) ==
  IF w.L.loopCrossfadeTimer.kind = "xfade"
    THEN IF Len(w.O) >= MaxOrphans THEN [w EXCEPT !.ovf = TRUE]
         ELSE [w EXCEPT !.O = Insert(@, w.L.loopCrossfadeTimer.remaining),
                        !.L.loopCrossfadeTimer = h]
  ELSE [w EXCEPT !.L.loopCrossfadeTimer = h]

NewTask(w) ==
  IF \E k \in TaskIds : w.K.x[k].kind = "none"
    THEN Min({k \in TaskIds : w.K.x[k].kind = "none"})
    ELSE Null

RetryLater(w, which) ==
  IF which = "next"
    THEN IF w.K.retryNext >= MaxTasks THEN [w EXCEPT !.ovf = TRUE]
         ELSE [w EXCEPT !.K.retryNext = @ + 1]
  ELSE IF w.K.retryXfade >= MaxTasks THEN [w EXCEPT !.ovf = TRUE]
       ELSE [w EXCEPT !.K.retryXfade = @ + 1]

\* ----------------------------------------------------------- LoopingSound
activeSound(w) == IF w.L.isA_Active THEN w.L.soundA ELSE w.L.soundB
targetSound(w) == IF w.L.isA_Active THEN w.L.soundB ELSE w.L.soundA

Segments(w) == w.C.segments

\* Sound.currentTime is a number only while the sound plays.
HasTime(w, s) == Playing(w, s)

\* A selection without the epsilon, to show what the verdict depends on.
FindNextSegmentNoEpsilon(segs, ct) ==
  IF \E i \in 1..Len(segs) : segs[i].startSec > ct
    THEN Min({i \in 1..Len(segs) : segs[i].startSec > ct})
    ELSE 0

\* config.segments.find(seg => seg.startSec > ct + EPSILON): 0 when none.
FindNextSegment(segs, ct) ==
  IF \E i \in 1..Len(segs) : segs[i].startSec > ct + EPSILON
    THEN Min({i \in 1..Len(segs) : segs[i].startSec > ct + EPSILON})
    ELSE 0

\* _scheduleFinalFadeOut: marks the fade-out; the fade itself is a gain curve on
\* the active sound, which keeps playing.
_scheduleFinalFadeOut(w) == [w EXCEPT !.L.isFadingOut = TRUE]

\* The retirement branch of _armNextTimer.
Retire(w) ==
  LET w1 == CancelHandoff(safeCancelCrossfade(CancelMain(w)))
      w2 == _scheduleFinalFadeOut(safeStop(w1, targetSound(w1)))
  IN [w2 EXCEPT !.L.isDestroyed = TRUE, !.L.soundA = Null, !.L.soundB = Null,
                !.E.retired = TRUE]

_armNextTimer(w) ==
  IF w.L.loopingDisabled THEN w
  ELSE IF w.L.isDestroyed \/ activeSound(w) = Null \/ w.L.isCrossfading THEN w
  ELSE
    LET w1 == CancelMain(w)
        a == activeSound(w1)
    IN IF ~HasTime(w1, a) THEN RetryLater(w1, "next")
       ELSE
         LET ct == w1.S[a].pos
             nxt == FindNextSegment(Segments(w1), ct)
         IN IF nxt = 0 THEN Retire(w1)
            ELSE [w1 EXCEPT !.L.mainSchedule =
                    [kind |-> "main", remaining |-> Segments(w1)[nxt].startSec - ct,
                     seg |-> nxt]]

\* _prepareTargetSound up to its first suspension: the alternate buffer is reused
\* (and reloaded if the engine unloaded it), or a new Sound is created and loaded.
\* The continuation waits in pc "prep"; n = 1 marks a newly created Sound.
BeginPrepare(w, task) ==
  LET existing == targetSound(w)
      k == NewTask(w)
  IN IF k = Null THEN [w EXCEPT !.ovf = TRUE]
     ELSE IF existing # Null
       THEN [w EXCEPT !.K.x[k] = [task EXCEPT !.pc = "prep", !.tgt = existing, !.n = 0]]
     ELSE [NewSound(w, AltSound(k)) EXCEPT
             !.K.x[k] = [task EXCEPT !.pc = "prep", !.tgt = AltSound(k), !.n = 1]]

\* _fadeOutAndAdvance up to its first suspension.
_fadeOutAndAdvance(w) ==
  IF w.L.isDestroyed THEN w
  ELSE [w EXCEPT !.L.isDestroyed = TRUE,
                 !.K.fadeOut = [pc |-> "fade", src |-> activeSound(w)]]

_endCurrentLoopSegment(w) ==
  _armNextTimer([w EXCEPT !.L.activeLoopSegment = 0, !.L.isCrossfading = FALSE,
                          !.L.loopsCompleted = 0])

\* _skipToSegment up to its first suspension (await _prepareTargetSound).
_skipToSegment(w, nextSegment) ==
  IF w.L.isDestroyed THEN w
  ELSE
    LET w1 == CancelHandoff(CancelCrossfadeScheduled(w))
        crossfadeMs == IF w1.L.activeLoopSegment # 0
                         THEN Segments(w1)[w1.L.activeLoopSegment].crossfadeMs
                       ELSE DefaultCrossfadeMs
    IN BeginPrepare(w1, [FreeTask EXCEPT !.kind = "skip", !.src = activeSound(w1),
                                         !.seg = nextSegment,
                                         !.crossfadeMs = crossfadeMs])

_handleSegmentCompletion(w) ==
  IF w.L.isDestroyed \/ w.L.activeLoopSegment = 0 THEN w
  ELSE
    LET cur == w.L.activeLoopSegment
        shouldSkip == Segments(w)[cur].skipToNext
        isLastSegment == cur + 1 > Len(Segments(w))
        w1 == [w EXCEPT !.E.loopEnd = [segment |-> cur,
                                       totalIterations |-> w.L.loopsCompleted,
                                       handoffs |-> w.E.handoffs]]
    IN IF ~shouldSkip
         THEN IF isLastSegment THEN _armNextTimer(w1) ELSE _endCurrentLoopSegment(w1)
       ELSE IF ~isLastSegment THEN _skipToSegment(w1, cur + 1)
       ELSE _fadeOutAndAdvance(w1)

\* Variants of the completion test, to show what the verdicts depend on: one
\* that waits for loopsCompleted to reach loopCount itself, one that forgets
\* that loopCount 0 means "forever".
LoopsDoneAtCount(maxLoops, loopsCompleted) == maxLoops > 0 /\ loopsCompleted >= maxLoops

LoopsDoneUnguarded(maxLoops, loopsCompleted) == loopsCompleted >= maxLoops - 1

\* The completion test of _performCrossfadeLoop.
LoopsDone(maxLoops, loopsCompleted) == maxLoops > 0 /\ loopsCompleted >= maxLoops - 1

\* loopsCompleted++; for an infinite segment the counter, which the code then
\* never compares, stops at MaxIter.
NextLoopsCompleted(maxLoops, n) == IF maxLoops = 0 /\ n >= MaxIter THEN n ELSE n + 1

\* _performCrossfadeLoop up to its first suspension.
_performCrossfadeLoop(w) ==
  IF w.L.isDestroyed \/ w.L.activeLoopSegment = 0 THEN w
  ELSE
    LET maxLoops == Segments(w)[w.L.activeLoopSegment].loopCount
    IN IF LoopsDone(maxLoops, w.L.loopsCompleted) THEN _handleSegmentCompletion(w)
       ELSE BeginPrepare(
              [w EXCEPT !.L.loopsCompleted = NextLoopsCompleted(maxLoops, @)],
              [FreeTask EXCEPT !.kind = "perform"])

\* untilFade of _armCrossfadeLoop: timeToEnd - crossfadeSec.
UntilFade(seg, ct) == (seg.endSec - seg.startSec) - (ct - seg.startSec) - seg.crossfadeMs

ArmScheduledCrossfade(w, delay) ==
  SetCrossfadeTimer(w, [kind |-> "xfade", remaining |-> delay, seg |-> 0])

\* A variant that fires at once only when the point is strictly behind, to show
\* what the verdict depends on.
_armCrossfadeLoopStrictlyPast(w) ==
  IF w.L.loopingDisabled THEN w
  ELSE IF w.L.activeLoopSegment = 0 \/ w.L.isDestroyed THEN w
  ELSE
    LET seg == Segments(w)[w.L.activeLoopSegment]
        a == activeSound(w)
    IN IF ~HasTime(w, a) THEN RetryLater(w, "xfade")
       ELSE IF UntilFade(seg, w.S[a].pos) < 0 THEN _performCrossfadeLoop(w)
       ELSE IF w.L.wasRestarted
         THEN IF w.K.settle.pc # "none" THEN [w EXCEPT !.ovf = TRUE]
              ELSE [SetCrossfadeTimer(w, [kind |-> "settle", remaining |-> 0, seg |-> 0])
                      EXCEPT !.L.wasRestarted = FALSE,
                             !.K.settle = [pc |-> "wait", seg |-> w.L.activeLoopSegment,
                                           timer |-> "armed"]]
       ELSE ArmScheduledCrossfade(w, UntilFade(seg, w.S[a].pos))

_armCrossfadeLoop(w) ==
  IF w.L.loopingDisabled THEN w
  ELSE IF w.L.activeLoopSegment = 0 \/ w.L.isDestroyed THEN w
  ELSE
    LET seg == Segments(w)[w.L.activeLoopSegment]
        a == activeSound(w)
    IN IF ~HasTime(w, a) THEN RetryLater(w, "xfade")
       ELSE IF UntilFade(seg, w.S[a].pos) <= 0 THEN _performCrossfadeLoop(w)
       ELSE IF w.L.wasRestarted
         THEN IF w.K.settle.pc # "none" THEN [w EXCEPT !.ovf = TRUE]
              ELSE [SetCrossfadeTimer(w, [kind |-> "settle", remaining |-> 0, seg |-> 0])
                      EXCEPT !.L.wasRestarted = FALSE,
                             !.K.settle = [pc |-> "wait", seg |-> w.L.activeLoopSegment,
                                           timer |-> "armed"]]
       ELSE ArmScheduledCrossfade(w, UntilFade(seg, w.S[a].pos))

_handleLoopTrigger(w, segment) ==
  IF w.L.isDestroyed \/ ~w.P.playing THEN w
  ELSE _armCrossfadeLoop(
         [w EXCEPT !.L.activeLoopSegment = segment, !.L.loopsCompleted = 0,
                   !.L.loopingDisabled = FALSE, !.L.isFadingOut = FALSE,
                   !.E.handoffs = 0, !.E.trigger = segment])

\* --------------------------------------------------- continuations: handoff
EndTask(w, k) ==
  [w EXCEPT !.K.x[k] = FreeTask,
            !.L.handoffTimer = IF @ = k THEN Null ELSE @,
            !.E.breakLoop.calls = @ \ {k}]

\* What _performCrossfadeLoop does with the handoff's result.
PerformTail(w, wasSuccessful) ==
  IF w.L.isDestroyed THEN w
  ELSE IF wasSuccessful THEN _armCrossfadeLoop(w)
  ELSE _endCurrentLoopSegment(w)

\* What _skipToSegment does with the handoff's result.
SkipTail(w, wasSuccessful, nextSegment) ==
  IF w.L.isDestroyed THEN w
  ELSE IF wasSuccessful
    THEN _armCrossfadeLoop([w EXCEPT !.L.activeLoopSegment = nextSegment,
                                     !.L.loopsCompleted = 0, !.E.handoffs = 0])
  ELSE _endCurrentLoopSegment(w)

\* Callers that do nothing when the handoff reports failure, to show what the
\* verdict depends on.
AfterHandoffIgnoresFailure(w, task, wasSuccessful) ==
  IF ~wasSuccessful THEN w
  ELSE IF task.kind = "perform" THEN PerformTail(w, TRUE)
  ELSE SkipTail(w, TRUE, task.seg)

AfterHandoff(w, task, wasSuccessful) ==
  IF task.kind = "perform" THEN PerformTail(w, wasSuccessful)
  ELSE SkipTail(w, wasSuccessful, task.seg)

\* _prepareTargetSound after its load: a newly created Sound is stored in the slot
\* that is the alternate one now.
PrepareTargetSoundDone(w, task) ==
  IF task.n = 1
    THEN IF w.L.isA_Active THEN [w EXCEPT !.L.soundB = task.tgt]
         ELSE [w EXCEPT !.L.soundA = task.tgt]
    ELSE w

\* _executeCrossfadeAndHandoff up to await targetSound.play().
ExecuteBegin(w, k, task) ==
  IF w.L.isDestroyed \/ task.src = Null \/ task.tgt = Null
    THEN AfterHandoff(EndTask(w, k), task, FALSE)
  ELSE [w EXCEPT !.L.isCrossfading = TRUE, !.K.x[k] = [task EXCEPT !.pc = "play"]]

\* The caller resumes after _prepareTargetSound and enters the handoff.
PrepDone(w, k) ==
  LET task == w.K.x[k]
      w1 == PrepareTargetSoundDone(w, task)
  IN IF task.kind = "perform"
       THEN IF w1.L.activeLoopSegment = 0
              THEN EndTask(w1, k)   \* destructuring null throws: the call dies
            ELSE ExecuteBegin(w1, k,
                   [task EXCEPT !.src = activeSound(w1),
                                !.seg = w1.L.activeLoopSegment,
                                !.crossfadeMs =
                                   Segments(w1)[w1.L.activeLoopSegment].crossfadeMs])
     ELSE ExecuteBegin(w1, k, task)

\* The load of a new alternate Sound failed: _prepareTargetSound returns null.
PrepFail(w, k) ==
  LET task == w.K.x[k]
      w1 == EndTask(w, k)
  IN IF task.kind = "perform" THEN w1 ELSE _endCurrentLoopSegment(w1)

\* targetSound.play() resolved.
ExecutePlayDone(w, k) ==
  LET task == w.K.x[k]
      w1 == [w EXCEPT !.S[task.tgt] =
                [st |-> "playing", pos |-> Segments(w)[task.seg].startSec]]
  IN IF w1.L.isDestroyed
       THEN AfterHandoff(EndTask([safeStop(w1, task.tgt) EXCEPT !.L.isCrossfading = FALSE], k),
                 task, FALSE)
     ELSE [CancelHandoff(w1) EXCEPT
             !.L.handoffTimer = k,
             !.K.x[k] = [task EXCEPT !.pc = "handoff", !.timer = "armed",
                                     !.remaining = task.crossfadeMs + HANDOFF_BUFFER]]

\* targetSound.play() rejected.
ExecutePlayFail(w, k) ==
  AfterHandoff(EndTask([w EXCEPT !.L.isCrossfading = FALSE, !.E.playFailed = TRUE], k),
               w.K.x[k], FALSE)

CountUp(n) == IF n >= MaxLoopCount THEN n ELSE n + 1

\* A completion step that does not look at isDestroyed after the wait, to show
\* what the verdict depends on.
ExecuteHandoffDoneUnchecked(w, k) ==
  LET task == w.K.x[k]
      w3 == [safeStop(EndTask(w, k), task.src) EXCEPT !.L.isA_Active = ~@]
  IN IF activeSound(w3) = Null THEN [w3 EXCEPT !.P.sound = Null]
     ELSE AfterHandoff([w3 EXCEPT !.P.sound = activeSound(w3),
                          !.L.isCrossfading = FALSE,
                          !.E.handoffs = CountUp(@)],
               task, TRUE)

\* A destroy that stops both buffers whatever allowFadeOut says, to show what
\* the verdict depends on.
destroyStopsBoth(w, allowFadeOut) ==
  IF w.L.isDestroyed THEN w
  ELSE
    LET w3 == CancelHandoff(safeCancelCrossfade(CancelMain([w EXCEPT !.L.isDestroyed = TRUE])))
    IN [safeStop(safeStop(w3, w3.L.soundA), w3.L.soundB) EXCEPT
          !.L.soundA = Null, !.L.soundB = Null,
          !.E.destroy = [called |-> TRUE, allowFadeOut |-> allowFadeOut,
                         midHandoff |-> FALSE, again |-> FALSE]]

\* The looper as _executeCrossfadeAndHandoff leaves it when it returns true,
\* recorded before the caller's continuation runs in the same step.
HandoffReturned(w, k, task) ==
  [w EXCEPT !.E.done = [flip |-> ~@.flip, call |-> k,
                        isA_Active |-> w.L.isA_Active,
                        activeSound |-> activeSound(w),
                        sound |-> w.P.sound,
                        isCrossfading |-> w.L.isCrossfading,
                        sourceStopped |-> ~Playing(w, task.src)]]

\* The handoff's completion step, after await handoffTimer.complete.
ExecuteHandoffDone(w, k) ==
  LET task == w.K.x[k]
      w2 == EndTask(w, k)
  IN IF w2.L.isDestroyed THEN AfterHandoff(safeStop(w2, task.tgt), task, FALSE)
     ELSE
       LET w3 == [safeStop(w2, task.src) EXCEPT !.L.isA_Active = ~@]
       IN IF activeSound(w3) = Null
            THEN [w3 EXCEPT !.P.sound = Null]   \* activeSound._manager throws
          ELSE AfterHandoff(HandoffReturned(
                              [w3 EXCEPT !.P.sound = activeSound(w3),
                                         !.L.isCrossfading = FALSE,
                                         !.E.handoffs = CountUp(@)], k, task),
                    task, TRUE)

\* The settle delay of the hybrid schedule has passed.
SettleDone(w) ==
  LET seg == Segments(w)[w.K.settle.seg]
      w2 == [w EXCEPT !.K.settle = [pc |-> "none", seg |-> 0, timer |-> "none"],
                      !.L.loopCrossfadeTimer = IF @.kind = "settle" THEN NoTimer ELSE @]
      a == activeSound(w2)
  IN IF w2.L.isDestroyed THEN w2
     ELSE IF a = Null \/ ~Playing(w2, a) THEN w2
     ELSE IF UntilFade(seg, w2.S[a].pos) <= 0 THEN _performCrossfadeLoop(w2)
     ELSE ArmScheduledCrossfade(w2, UntilFade(seg, w2.S[a].pos))

\* AudioTimeout.wait(100).then(...): the retry after an unreadable currentTime.
RetryNextDone(w) == _armNextTimer([w EXCEPT !.K.retryNext = @ - 1])
RetryCrossfadeDone(w) == _armCrossfadeLoop([w EXCEPT !.K.retryXfade = @ - 1])

NoFade == [pc |-> "none", src |-> Null]

\* fadeOutAndStop has faded the active sound out and stopped it.
FadeOutDone(w) == [safeStop(w, w.K.fadeOut.src) EXCEPT !.K.fadeOut = NoFade]

\* ----------------------------------------------------- continuations: start
NoStart == [pc |-> "none", src |-> Null, tgt |-> Null, n |-> 0]
EndStart(w) == [w EXCEPT !.K.start = NoStart]

\* AudioTimeout.wait(50).then(...) of scheduleLoopWithin, and start() up to
\* await waitForMedia(ps).
StartDelayDone(w) ==
  IF w.L.isDestroyed THEN EndStart(w)
  ELSE [w EXCEPT !.K.start.pc = "waitMedia"]

\* start() after await waitForMedia(ps).
StartMediaDone(w) ==
  LET w1 == [w EXCEPT !.L.soundA = w.P.sound]
  IN IF w1.L.soundA = Null THEN EndStart(w1)
     ELSE IF w1.L.isDestroyed THEN EndStart(safeStop(w1, w1.L.soundA))
     ELSE IF ~w1.C.startFromBeginning /\ Len(Segments(w1)) > 0
       THEN [NewSound(w1, FreshSound) EXCEPT
               !.K.start = [pc |-> "load", src |-> w1.L.soundA, tgt |-> FreshSound,
                            n |-> 0]]
     ELSE _armNextTimer(EndStart(w1))

\* start() after await newSound.load().
StartLoadDone(w) ==
  IF w.L.isDestroyed THEN EndStart(safeStop(w, w.K.start.tgt))
  ELSE [w EXCEPT !.K.start.pc = "play"]

\* newSound.load() or newSound.play() rejected: the catch block.
StartSeekFail(w) == _armNextTimer(EndStart(w))

\* start() after await newSound.play({offset: firstSeg.startSec}).
StartPlayDone(w) ==
  LET task == w.K.start
      w1 == [w EXCEPT !.S[task.tgt] =
                [st |-> "playing", pos |-> Segments(w)[1].startSec]]
  IN IF w1.L.isDestroyed THEN EndStart(safeStop(w1, task.tgt))
     ELSE [safeStop(w1, task.src) EXCEPT
             !.L.soundA = task.tgt, !.P.sound = task.tgt, !.L.wasRestarted = TRUE,
             !.K.start = [task EXCEPT !.pc = "oldStop"]]

\* The code after await waitForStablePosition(); the run records how the wait
\* ended.
StableResolved(w, isStable) ==
  LET w1 == [w EXCEPT !.E.stable.ended = TRUE, !.E.stable.isStable = isStable]
  IN IF ~w1.L.isDestroyed /\ isStable THEN _handleLoopTrigger(EndStart(w1), 1)
     ELSE IF ~w1.L.isDestroyed THEN _armNextTimer(EndStart(w1))
     ELSE EndStart(w1)

\* The run's record of a read: how many reads in a row were within the
\* tolerance.
Read(w, within) ==
  [w EXCEPT !.E.stable.streak =
     IF ~within THEN 0
     ELSE IF @ >= POSITION_CHECK_REQUIRED THEN @ ELSE @ + 1]

\* checkPosition of waitForStablePosition; currentTime is what the engine reports.
CheckPosition(w, currentTime) ==
  LET targetPos == Segments(w)[1].startSec
      diff == IF currentTime >= targetPos THEN currentTime - targetPos
              ELSE targetPos - currentTime
      stableCount == w.K.start.n + 1
  IN IF w.L.isDestroyed THEN StableResolved(w, FALSE)
     ELSE IF ~Playing(w, w.L.soundA) THEN StableResolved(w, FALSE)
     ELSE IF diff < POSITION_CHECK_TOLERANCE
       THEN IF stableCount >= POSITION_CHECK_REQUIRED
              THEN StableResolved(Read(w, TRUE), TRUE)
            ELSE [Read(w, TRUE) EXCEPT !.K.start.pc = "stable", !.K.start.n = stableCount]
     ELSE [Read(w, FALSE) EXCEPT !.K.start.pc = "stable", !.K.start.n = 0]

\* ------------------------------------------------------------- the commands
\* The run's record of the call: whether a handoff was in progress, and which
\* _executeCrossfadeAndHandoff calls were suspended in it.
breakLoop(w) ==
  IF w.L.isDestroyed THEN w
  ELSE IF w.L.isCrossfading
    THEN LET w1 == CancelHandoff(w)
             w2 == [w1 EXCEPT !.E.breakLoop =
                      [called |-> TRUE, midHandoff |-> TRUE,
                       calls |-> {k \in TaskIds : w.K.x[k].pc \in {"play", "handoff"}}]]
         IN _endCurrentLoopSegment(safeStop(w2, targetSound(w2)))
  ELSE _endCurrentLoopSegment([w EXCEPT !.E.breakLoop.called = TRUE])

disableLooping(w) ==
  IF w.L.isDestroyed THEN w
  ELSE
    LET w0 == [w EXCEPT !.L.loopingDisabled = TRUE]
        w3 == CancelHandoff(safeCancelCrossfade(CancelMain(w0)))
        w4 == IF w3.L.isCrossfading THEN safeStop(w3, targetSound(w3)) ELSE w3
    IN _scheduleFinalFadeOut([w4 EXCEPT !.L.activeLoopSegment = 0,
                                        !.L.isCrossfading = FALSE,
                                        !.L.loopsCompleted = 0,
                                        !.E.disabled = TRUE])

skipToSegmentByIndex(w, index) ==
  IF w.L.isDestroyed THEN w
  ELSE IF index \notin 1..Len(Segments(w)) THEN w
  ELSE _skipToSegment(w, index)

destroy(w, allowFadeOut) ==
  IF w.L.isDestroyed THEN w
  ELSE
    LET w0 == [w EXCEPT !.L.isDestroyed = TRUE]
        w3 == CancelHandoff(safeCancelCrossfade(CancelMain(w0)))
        w4 == IF ~allowFadeOut THEN safeStop(safeStop(w3, w3.L.soundA), w3.L.soundB)
              ELSE safeStop(w3, targetSound(w3))
    IN [w4 EXCEPT !.L.soundA = Null, !.L.soundB = Null,
                  !.E.destroy = [called |-> TRUE, allowFadeOut |-> allowFadeOut,
                                 midHandoff |-> \E k \in TaskIds :
                                    w.K.x[k].pc = "handoff" /\ w.K.x[k].timer = "armed",
                                 again |-> FALSE]]

pause(w) == CancelCrossfadeScheduled(CancelMain(w))

resume(w) ==
  IF w.L.isCrossfading \/ w.L.isDestroyed THEN w
  ELSE IF w.L.activeLoopSegment # 0 THEN _armCrossfadeLoop(w)
  ELSE _armNextTimer(w)

\* ------------------------------------------------------------------ actions
\* A Sound that nothing refers to is out of the program's reach: once silent it
\* is collected, and its position is no longer tracked.
Referenced(w, s) ==
  \/ s \in {w.L.soundA, w.L.soundB, w.P.sound}
  \/ s \in {w.K.start.src, w.K.start.tgt, w.K.fadeOut.src}
  \/ \E k \in TaskIds : s \in {w.K.x[k].src, w.K.x[k].tgt}

Collect(w) ==
  [s \in SoundIds |->
     IF Referenced(w, s) THEN w.S[s]
     ELSE IF w.S[s].st \in {"stopped", "none"} THEN FreeSound
     ELSE [w.S[s] EXCEPT !.pos = 0]]

\* The handoffs in progress during which isCrossfading has been seen false.
Lapsed(w) ==
  { k \in TaskIds : /\ w.K.x[k].pc \in {"play", "handoff"}
                    /\ k \in w.E.lapsed \/ ~w.L.isCrossfading }

Apply(w) ==
  /\ ~w.ovf
  /\ looper' = w.L
  /\ orphans' = w.O
  /\ tasks' = w.K
  /\ sounds' = Collect(w)
  /\ ps' = w.P
  /\ log' = [w.E EXCEPT !.lapsed = Lapsed(w)]
  /\ UNCHANGED <<config, life, pick, PlaylistVars>>

Commit(w) == Apply(w) /\ UNCHANGED budget

\* A user command or an engine failure: the run sees at most MaxCommands of them.
Command(w) == budget > 0 /\ Apply(w) /\ budget' = budget - 1

\* Loads, play starts, the fade-out and the 50 ms start delay resolve within the
\* tick; the settle delay, the position polls and the retries take time.
Prompt ==
  \/ tasks.start.pc \in {"delay", "waitMedia", "load", "play", "oldStop"}
  \/ \E k \in TaskIds : tasks.x[k].pc \in {"prep", "play"}
  \/ tasks.fadeOut.pc # "none"

Pending ==
  \/ tasks.start.pc # "none" \/ tasks.fadeOut.pc # "none" \/ tasks.settle.pc # "none"
  \/ tasks.retryNext > 0 \/ tasks.retryXfade > 0
  \/ \E k \in TaskIds : tasks.x[k].kind # "none"

ArmedScheduled ==
  looper.mainSchedule.kind = "main" \/ looper.loopCrossfadeTimer.kind = "xfade"
  \/ Len(orphans) > 0

MainArmed == looper.mainSchedule.kind = "main"

\* The crossfade handle holds a scheduled callback or the pending settle timer.
CrossfadeArmed == looper.loopCrossfadeTimer.kind \in {"xfade", "settle"}

\* Which kind of timer the instance has armed.
ArmedKind ==
  IF MainArmed /\ CrossfadeArmed THEN "both"
  ELSE IF MainArmed THEN "boundary"
  ELSE IF CrossfadeArmed THEN "crossfade"
  ELSE "none"

ArmedHandoff(k) == tasks.x[k].pc = "handoff" /\ tasks.x[k].timer = "armed"

\* A continuation whose AudioTimeout was cancelled may still be resumed by the
\* engine, or never run: both are modelled.
HandoffLost(k) ==
  /\ tasks.x[k].pc = "handoff" /\ tasks.x[k].timer = "cancelled"
  /\ Commit(EndTask(World, k))

SettleLost ==
  /\ tasks.settle.pc = "wait" /\ tasks.settle.timer = "cancelled"
  /\ Commit([World EXCEPT !.K.settle = [pc |-> "none", seg |-> 0, timer |-> "none"]])

StartDelay == tasks.start.pc = "delay" /\ Commit(StartDelayDone(World))

StartMedia == tasks.start.pc = "waitMedia" /\ Commit(StartMediaDone(World))

StartLoad == tasks.start.pc = "load" /\ Commit(StartLoadDone(World))

StartFail == tasks.start.pc \in {"load", "play"} /\ Command(StartSeekFail(World))

StartPlay == tasks.start.pc = "play" /\ Commit(StartPlayDone(World))

\* One poll of the position-stabilisation wait: the engine reports the position,
\* or one that is off by the tolerance (a stale read after the seek).
StablePoll ==
  /\ tasks.start.pc \in {"oldStop", "stable"}
  /\ LET ct == IF looper.soundA \in SoundIds THEN sounds[looper.soundA].pos ELSE 0
     IN \/ Commit(CheckPosition(World, ct))
        \/ Command(CheckPosition(World, ct + POSITION_CHECK_TOLERANCE))

Prepared(k) == tasks.x[k].pc = "prep" /\ Commit(PrepDone(World, k))

PrepareFailed(k) ==
  tasks.x[k].pc = "prep" /\ tasks.x[k].n = 1 /\ Command(PrepFail(World, k))

TargetPlaying(k) == tasks.x[k].pc = "play" /\ Commit(ExecutePlayDone(World, k))

TargetPlayFailed(k) == tasks.x[k].pc = "play" /\ Command(ExecutePlayFail(World, k))

\* The handoff wait of crossfadeMs + HANDOFF_BUFFER is over.
HandoffComplete(k) ==
  /\ tasks.x[k].pc = "handoff"
  /\ tasks.x[k].timer = "armed" => tasks.x[k].remaining = 0
  /\ Commit(ExecuteHandoffDone(World, k))

Settled == tasks.settle.pc = "wait" /\ Commit(SettleDone(World))

RetryNext == tasks.retryNext > 0 /\ Commit(RetryNextDone(World))

RetryCrossfade == tasks.retryXfade > 0 /\ Commit(RetryCrossfadeDone(World))

FadedOut == tasks.fadeOut.pc = "fade" /\ Commit(FadeOutDone(World))

\* The Sound.schedule callback of mainSchedule is due.
MainFire ==
  /\ looper.mainSchedule.kind = "main" /\ looper.mainSchedule.remaining = 0
  /\ Commit(_handleLoopTrigger([World EXCEPT !.L.mainSchedule = NoTimer],
                               looper.mainSchedule.seg))

\* The Sound.schedule callback of loopCrossfadeTimer is due.
CrossfadeFire ==
  /\ looper.loopCrossfadeTimer.kind = "xfade" /\ looper.loopCrossfadeTimer.remaining = 0
  /\ Commit(_performCrossfadeLoop([World EXCEPT !.L.loopCrossfadeTimer = NoTimer]))

\* A crossfade callback that no handle refers to is due.
OrphanFire ==
  /\ Len(orphans) > 0 /\ Head(orphans) = 0
  /\ Commit(_performCrossfadeLoop([World EXCEPT !.O = Tail(@)]))

CountDown(h) == IF h.kind \in {"main", "xfade"} THEN [h EXCEPT !.remaining = @ - 1] ELSE h

\* 10 ms pass: playing sounds advance (and end at the track's duration), scheduled
\* callbacks and handoff waits come closer. What is due happens before time
\* moves on.
Tick ==
  /\ looper.mainSchedule.kind = "main" => looper.mainSchedule.remaining > 0
  /\ looper.loopCrossfadeTimer.kind = "xfade" => looper.loopCrossfadeTimer.remaining > 0
  /\ Len(orphans) > 0 => Head(orphans) > 0
  /\ \A k \in TaskIds : ArmedHandoff(k) => tasks.x[k].remaining > 0
  /\ \/ \E s \in SoundIds : sounds[s].st = "playing" /\ Referenced(World, s)
     \/ \E k \in TaskIds : ArmedHandoff(k)
  /\ ~Prompt
  /\ ~looper.isDestroyed \/ Pending \/ ArmedScheduled
  /\ Commit([World EXCEPT
       !.S = [s \in SoundIds |->
                IF sounds[s].st # "playing" THEN sounds[s]
                ELSE IF sounds[s].pos >= Dur THEN [st |-> "stopped", pos |-> 0]
                ELSE [sounds[s] EXCEPT !.pos = @ + 1]],
       !.L.mainSchedule = CountDown(@),
       !.L.loopCrossfadeTimer = CountDown(@),
       !.O = [i \in 1..Len(orphans) |-> orphans[i] - 1],
       !.K.x = [k \in TaskIds |->
                  IF ArmedHandoff(k) THEN [tasks.x[k] EXCEPT !.remaining = @ - 1]
                  ELSE tasks.x[k]]])

BreakLoop == ~looper.isDestroyed /\ Command(breakLoop(World))

DisableLooping == ~looper.isDestroyed /\ Command(disableLooping(World))

SkipToSegmentByIndex(index) ==
  ~looper.isDestroyed /\ Command(skipToSegmentByIndex(World, index))

\* cancelLoopWithin / State.cleanup reach the instance through the registry.
Destroy(allowFadeOut) == ~looper.isDestroyed /\ Command(destroy(World, allowFadeOut))

\* destroy() is called once more on the instance it has destroyed.
DestroyAgain(allowFadeOut) ==
  /\ log.destroy.called /\ ~log.destroy.again
  /\ Commit([destroy(World, allowFadeOut) EXCEPT !.E.destroy.again = TRUE])

\* The Sound.pause wrapper: pauseLoopWithin, then the host pauses the sound.
Pause ==
  /\ ps.sound \in SoundIds /\ sounds[ps.sound].st = "playing" /\ sounds[ps.sound].pos > 0
  /\ Command([pause(World) EXCEPT
       !.S[ps.sound].st = "paused",
       !.E.paused = [st |-> "paused", armed |-> ArmedKind,
                     seg |-> looper.activeLoopSegment]])

\* The Sound.play wrapper on a paused track: the host resumes the sound, then
\* resumeLoopWithin.
Resume ==
  /\ ps.sound \in SoundIds /\ sounds[ps.sound].st = "paused"
  /\ Commit(resume([World EXCEPT !.S[ps.sound].st = "playing",
                                  !.E.paused.st = "resumed"]))

\* The host marks the track as no longer playing.
TrackStopped == ps.playing /\ Command([World EXCEPT !.P.playing = FALSE])

InitLooper ==
  [soundA |-> Null, soundB |-> Null, isA_Active |-> TRUE, isDestroyed |-> FALSE,
   isCrossfading |-> FALSE, activeLoopSegment |-> 0, loopsCompleted |-> 0,
   mainSchedule |-> NoTimer, handoffTimer |-> Null, loopCrossfadeTimer |-> NoTimer,
   wasRestarted |-> FALSE, loopingDisabled |-> FALSE, isFadingOut |-> FALSE]

InitLog ==
  [loopEnd |-> [segment |-> 0, totalIterations |-> 0, handoffs |-> 0],
   handoffs |-> 0, retired |-> FALSE,
   destroy |-> [called |-> FALSE, allowFadeOut |-> FALSE, midHandoff |-> FALSE,
                again |-> FALSE],
   playFailed |-> FALSE, disabled |-> FALSE, trigger |-> 0,
   stable |-> [ended |-> FALSE, isStable |-> FALSE, streak |-> 0],
   done |-> [flip |-> FALSE, call |-> Null, isA_Active |-> TRUE,
            activeSound |-> Null, sound |-> Null, isCrossfading |-> FALSE,
            sourceStopped |-> FALSE], lapsed |-> {},
   breakLoop |-> [called |-> FALSE, midHandoff |-> FALSE, calls |-> {}],
   paused |-> [st |-> "no", armed |-> "none", seg |-> 0]]

InitTasks ==
  [start |-> [NoStart EXCEPT !.pc = "delay"],
   x |-> [k \in TaskIds |-> FreeTask],
   settle |-> [pc |-> "none", seg |-> 0, timer |-> "none"],
   retryNext |-> 0, retryXfade |-> 0,
   fadeOut |-> NoFade]

NoInstance ==
  [phase |-> "none", isDestroyed |-> FALSE, isAborted |-> FALSE, cb |-> "none",
   armed |-> FALSE, early |-> FALSE]

InitLife ==
  [registry |-> Null, inst |-> [i \in 1..MaxInstances |-> NoInstance], playing |-> TRUE,
   skipped |-> FALSE]

NoPick == [segments |-> << >>, p |-> 0, done |-> FALSE, chosen |-> 0]

\* scheduleLoopWithin has constructed the instance for a playing track and
\* started the 50 ms delay.
InitRun(commands) ==
  /\ config \in LoopConfigs
  /\ looper = InitLooper
  /\ orphans = << >>
  /\ tasks = InitTasks
  /\ sounds = [s \in SoundIds |-> IF s = HostSound THEN [st |-> "playing", pos |-> 0]
                                  ELSE FreeSound]
  /\ ps = [sound |-> HostSound, playing |-> TRUE]
  /\ log = InitLog
  /\ budget = commands
  /\ life = InitLife
  /\ pick = NoPick
  /\ PlaylistIdle

Init == InitRun(MaxCommands)

Next ==
  \/ StartDelay \/ StartMedia \/ StartLoad \/ StartFail \/ StartPlay \/ StablePoll
  \/ \E k \in TaskIds :
       \/ Prepared(k) \/ PrepareFailed(k) \/ TargetPlaying(k) \/ TargetPlayFailed(k)
       \/ HandoffComplete(k) \/ HandoffLost(k)
  \/ Settled \/ SettleLost \/ RetryNext \/ RetryCrossfade \/ FadedOut
  \/ MainFire \/ CrossfadeFire \/ OrphanFire
  \/ Tick
  \/ BreakLoop
  \/ DisableLooping
  \/ \E i \in 1..Len(config.segments) : SkipToSegmentByIndex(i)
  \/ \E b \in BOOLEAN : Destroy(b)
  \/ \E b \in BOOLEAN : DestroyAgain(b)
  \/ Pause
  \/ Resume
  \/ TrackStopped

Spec == Init /\ [][Next]_vars

\* ============================================================ the properties
LoopCountOf(seg) == config.segments[seg].loopCount

\* How many crossfade callbacks and settle timers are pending.
CrossfadeTimers ==
  (IF looper.loopCrossfadeTimer.kind = "xfade" THEN 1 ELSE 0)
  + Len(orphans)
  + (IF tasks.settle.pc = "wait" /\ tasks.settle.timer = "armed" THEN 1 ELSE 0)

\* C2: at most one of the boundary timer (mainSchedule) and the crossfade timer
\* (loopCrossfadeTimer) is armed in every reachable state.
C2_TimersExclusive == ~(MainArmed /\ CrossfadeArmed)

\* The fields of the instance that a continuation could still change.
Frozen ==
  /\ looper'.soundA = looper.soundA
  /\ looper'.soundB = looper.soundB
  /\ looper'.activeLoopSegment = looper.activeLoopSegment
  /\ looper'.loopsCompleted = looper.loopsCompleted
  /\ looper'.isA_Active = looper.isA_Active
  /\ looper'.isCrossfading = looper.isCrossfading
  /\ looper'.mainSchedule.kind = "main" => looper.mainSchedule.kind = "main"
  /\ looper'.loopCrossfadeTimer.kind # "none" =>
       looper.loopCrossfadeTimer.kind = looper'.loopCrossfadeTimer.kind
  /\ looper'.handoffTimer # Null => looper.handoffTimer = looper'.handoffTimer

\* C3: once destroy() has been called, no step changes a field of the instance:
\* the buffer slots stay released, and the active segment, the loop counter, the
\* active-buffer flag, the crossfading flag and the timer handles keep their
\* values.
C3_NoMutationAfterDestroy == [][log.destroy.called => Frozen]_vars

DestroyStep(allowFadeOut) ==
  ~log.destroy.called /\ log'.destroy.called /\ log'.destroy.allowFadeOut = allowFadeOut

Silent(s) == s \in SoundIds => sounds[s].st # "playing"
SilentNext(s) == s \in SoundIds => sounds'[s].st # "playing"

\* C7: destroy(false) during a handoff wait stops both buffers (soundA and
\* soundB) at once, and from then on the active-buffer flag is not flipped, the track's sound handle is not
\* rebound and no timer is armed.
C7_DestroyMidHandoff ==
  [][ /\ (DestroyStep(FALSE) /\ log'.destroy.midHandoff) =>
           /\ SilentNext(looper.soundA) /\ SilentNext(looper.soundB)
      /\ (log.destroy.called /\ ~log.destroy.allowFadeOut /\ log.destroy.midHandoff) =>
           /\ looper'.isA_Active = looper.isA_Active
           /\ ps'.sound = ps.sound
           /\ ~MainArmed' /\ ~CrossfadeArmed' /\ looper'.handoffTimer = Null
           /\ Len(orphans') <= Len(orphans) ]_vars

\* destroy(false) came during a handoff wait, and no continuation of a handoff
\* is outstanding any more.
C7_Witness ==
  /\ log.destroy.called /\ ~log.destroy.allowFadeOut /\ log.destroy.midHandoff
  /\ \A k \in TaskIds : tasks.x[k].kind = "none"

ResumeStep == log.paused.st = "paused" /\ log'.paused.st = "resumed"

\* C9: pause() then resume() with the segment unchanged leaves the kind of timer
\* armed that was armed before the pause (the crossfade timer in a segment, the
\* boundary timer otherwise), and exactly one timer.
C9_PauseResumeRestoresTimer ==
  [][ (/\ ResumeStep
       /\ looper.activeLoopSegment = log.paused.seg
       /\ log.paused.armed = IF log.paused.seg # 0 THEN "crossfade" ELSE "boundary")
      => /\ ArmedKind' = log.paused.armed
         /\ (IF MainArmed THEN 1 ELSE 0)' + CrossfadeTimers' = 1 ]_vars

CompletionStep(seg) == log.loopEnd.segment = 0 /\ log'.loopEnd.segment = seg

Retired ==
  /\ looper.isDestroyed /\ looper.soundA = Null /\ looper.soundB = Null
  /\ ~MainArmed /\ ~CrossfadeArmed /\ looper.handoffTimer = Null
  /\ \A k \in TaskIds : ~ArmedHandoff(k)

\* C10: when the last segment completes its loops with skipToNext = false the
\* looper retires: its timers are cancelled, the inactive buffer is stopped,
\* isDestroyed is true, both buffer references are released and the active buffer
\* is not stopped.
C10_LastSegmentRetires ==
  [][ \A seg \in 1..Len(config.segments) :
        (/\ CompletionStep(seg)
         /\ seg = Len(config.segments)
         /\ ~config.segments[seg].skipToNext)
        => /\ Retired'
           /\ SilentNext(targetSound(World))
           /\ activeSound(World) \in SoundIds
           /\ sounds[activeSound(World)].st # "stopped" =>
                sounds'[activeSound(World)].st # "stopped" ]_vars

\* ================================================= the loop without commands
\* The same instance in a run without user commands and engine failures.
InitLoop == InitRun(0)

\* The one-second settle delay and the start-up position polls are short against
\* what is left of the track: no sound plays to its end while one of them is
\* outstanding.
TimelyTick ==
  /\ (tasks.settle.pc # "none" \/ tasks.start.pc # "none") =>
       \A s \in SoundIds : sounds[s].st = "playing" => sounds[s].pos < Dur
  /\ Tick

NextLoop ==
  \/ StartDelay \/ StartMedia \/ StartLoad \/ StartPlay \/ StablePoll
  \/ \E k \in TaskIds : Prepared(k) \/ TargetPlaying(k) \/ HandoffComplete(k)
  \/ Settled \/ FadedOut
  \/ MainFire \/ CrossfadeFire
  \/ TimelyTick

\* The host's event loop runs every callback that is due and every continuation
\* whose promise has resolved.
SpecLoop == InitLoop /\ [][NextLoop]_vars /\ WF_vars(NextLoop)

InfiniteSegmentActive ==
  looper.activeLoopSegment # 0 /\ LoopCountOf(looper.activeLoopSegment) = 0

HandoffInProgress == \E k \in TaskIds : tasks.x[k].pc = "handoff"

\* C5: a segment with loopCount = 0 never reaches segment completion, and in a
\* run without break, disable, skip, pause, destroy and failures handoffs recur
\* forever: after a completed handoff of such a segment the next handoff begins,
\* and every handoff that has begun completes.
C5_InfiniteLoopRecurs ==
  /\ [](log.loopEnd.segment # 0 => LoopCountOf(log.loopEnd.segment) > 0)
  /\ (InfiniteSegmentActive /\ log.handoffs > 0 /\ ~HandoffInProgress) ~> HandoffInProgress
  /\ HandoffInProgress ~> ~HandoffInProgress

\* An infinite segment has been handed off twice and is armed for the next time.
C5_Witness ==
  /\ InfiniteSegmentActive /\ log.handoffs >= 2
  /\ looper.loopCrossfadeTimer.kind = "xfade"

\* ==================================================== the segment selection
\* What the looper, the lifecycle manager and the selection leave alone.
LooperIdle ==
  /\ config = [segments |-> << >>, startFromBeginning |-> TRUE]
  /\ looper = InitLooper /\ orphans = << >> /\ tasks = InitTasks
  /\ sounds = [s \in SoundIds |-> FreeSound]
  /\ ps = [sound |-> HostSound, playing |-> TRUE]
  /\ log = InitLog /\ budget = 0

LooperVars == <<config, looper, orphans, tasks, sounds, ps, log, budget>>

RECURSIVE Ascending(_)
Ascending(S) ==
  IF S = {} THEN << >>
  ELSE LET m == CHOOSE x \in S : \A y \in S : x <= y
       IN << Seg(m, m + 1, 1, 1, FALSE) >> \o Ascending(S \ {m})

\* Segment lists as the configuration holds them: ordered by startSec,
\* non-overlapping.
SegmentLists ==
  { Ascending(S) : S \in { T \in SUBSET (0..MaxStart) : Cardinality(T) <= MaxSegments } }

InitSelect ==
  /\ LooperIdle /\ life = InitLife /\ PlaylistIdle
  /\ pick \in { [segments |-> l, p |-> p, done |-> FALSE, chosen |-> 0] :
                  l \in SegmentLists, p \in 0..(MaxStart + 1) }

\* _armNextTimer evaluates the selection at position p.
Select ==
  /\ ~pick.done
  /\ pick' = [pick EXCEPT !.done = TRUE, !.chosen = FindNextSegment(pick.segments, pick.p)]
  /\ UNCHANGED <<LooperVars, life, PlaylistVars>>

SpecSelect == InitSelect /\ [][Select]_vars

\* C6: the boundary timer's segment is the first one whose startSec exceeds
\* p + EPSILON; none is chosen when there is none; a segment whose startSec is p
\* or within EPSILON after it is never the chosen one.
C6_SelectsFirstAfterEpsilon ==
  pick.done =>
    LET segs == pick.segments
        late(i) == segs[i].startSec > pick.p + EPSILON
        c == pick.chosen
    IN /\ c = 0 => \A i \in 1..Len(segs) : ~late(i)
       /\ c # 0 => /\ c \in 1..Len(segs) /\ late(c)
                   /\ \A i \in 1..(c - 1) : ~late(i)
       /\ \A i \in 1..Len(segs) :
            segs[i].startSec \in pick.p..(pick.p + EPSILON) => c # i

\* A segment starts exactly at p, another within EPSILON after it, and the
\* selection went past both to a later one.
C6_Witness ==
  /\ pick.done /\ pick.chosen = 3
  /\ pick.segments[1].startSec = pick.p
  /\ pick.segments[2].startSec = pick.p + EPSILON

\* ==================================================== the lifecycle manager
\* One track's registry entry and the LoopingSound instances made for it. An
\* instance is "new" once constructed, "starting" while start() runs its awaits,
\* "running" after start() returned; cb is its 50 ms start callback; early
\* records that it was destroyed with the callback still outstanding.
Instances == 1..MaxInstances

Exists(l, i) == l.inst[i].phase # "none"

\* An instance that is destroyed, unregistered and has no callback or
\* continuation outstanding is out of everyone's reach: its slot is free again.
Sweep(l) ==
  [l EXCEPT !.inst = [i \in Instances |->
     IF /\ l.inst[i].isDestroyed /\ l.registry # i
        /\ l.inst[i].cb # "pending" /\ l.inst[i].phase # "starting"
     THEN NoInstance ELSE l.inst[i]]]

\* destroy() as the manager sees it: idempotent, cancels the timers.
DestroyInstance(l, i) ==
  IF l.inst[i].isDestroyed THEN l
  ELSE [l EXCEPT !.inst[i].isDestroyed = TRUE, !.inst[i].armed = FALSE,
                 !.inst[i].early = (l.inst[i].cb = "pending")]

cancelLoopWithin(l) ==
  IF l.registry = Null THEN l
  ELSE [DestroyInstance([l EXCEPT !.inst[l.registry].isAborted = TRUE], l.registry)
          EXCEPT !.registry = Null]

\* State.cleanup, step 3, for this track.
cleanup(l) ==
  IF l.registry = Null THEN l
  ELSE [DestroyInstance([l EXCEPT !.inst[l.registry].isAborted = TRUE], l.registry)
          EXCEPT !.registry = Null]

FreeSlot(l) == CHOOSE i \in Instances : ~Exists(l, i) /\ \A j \in Instances : ~Exists(l, j) => i <= j

scheduleLoopWithin(l, enabled) ==
  IF ~l.playing THEN l
  ELSE LET l1 == Sweep(cancelLoopWithin(l))
       IN IF ~enabled THEN l1
          ELSE LET i == FreeSlot(l1)
               IN [l1 EXCEPT !.inst[i] = [NoInstance EXCEPT !.phase = "new", !.cb = "pending"],
                             !.registry = i]

\* A variant of the delayed callback that starts the instance without looking
\* at isDestroyed, to show what the verdict depends on.
StartCallbackUnguarded(l, i) ==
  [l EXCEPT !.inst[i].cb = "done", !.inst[i].phase = "starting"]

\* AudioTimeout.wait(50).then(() => { if (!looper.isDestroyed) looper.start(); })
StartCallbackDone(l, i) ==
  IF l.inst[i].isDestroyed
    THEN [l EXCEPT !.inst[i].cb = "done", !.skipped = @ \/ l.inst[i].early]
    ELSE [l EXCEPT !.inst[i].cb = "done", !.inst[i].phase = "starting"]

\* start() comes back from its awaits and reaches _armNextTimer.
StartArmsDone(l, i) ==
  IF l.inst[i].isDestroyed THEN [l EXCEPT !.inst[i].phase = "running"]
  ELSE [l EXCEPT !.inst[i].phase = "running", !.inst[i].armed = TRUE]

\* The retirement branch of _armNextTimer: the registry is not told.
RetireInstance(l, i) ==
  [l EXCEPT !.inst[i].isDestroyed = TRUE, !.inst[i].armed = FALSE]

\* _fadeOutAndAdvance after the last segment's loops: the instance marks itself
\* destroyed (its crossfade timer has just fired, no boundary timer is armed
\* inside a segment); the registry is not told.
FadeOutAndAdvanceInstance(l, i) ==
  [l EXCEPT !.inst[i].isDestroyed = TRUE, !.inst[i].armed = FALSE]

LifeStep(l) == life' = Sweep(l) /\ UNCHANGED <<LooperVars, pick, PlaylistVars>>

ScheduleLoopWithin(enabled) ==
  /\ enabled /\ life.playing => \E i \in Instances : ~Exists(Sweep(cancelLoopWithin(life)), i)
  /\ LifeStep(scheduleLoopWithin(life, enabled))

CancelLoopWithin ==
  /\ life' = Sweep(cancelLoopWithin(life))
  /\ UNCHANGED <<LooperVars, pick, PlaylistVars>>

Cleanup ==
  /\ life' = Sweep(cleanup(life))
  /\ UNCHANGED <<LooperVars, pick, PlaylistVars>>

StartCallback(i) == life.inst[i].cb = "pending" /\ LifeStep(StartCallbackDone(life, i))

StartArms(i) == life.inst[i].phase = "starting" /\ LifeStep(StartArmsDone(life, i))

RetireLooper(i) ==
  /\ life.inst[i].phase = "running" /\ ~life.inst[i].isDestroyed
  /\ LifeStep(RetireInstance(life, i))

FadeOutAndAdvance(i) ==
  /\ life.inst[i].phase = "running" /\ ~life.inst[i].isDestroyed /\ life.inst[i].armed
  /\ LifeStep(FadeOutAndAdvanceInstance(life, i))

\* The host starts or stops the track.
PlayingChanges ==
  /\ life' = [life EXCEPT !.playing = ~@]
  /\ UNCHANGED <<LooperVars, pick, PlaylistVars>>

InitManager == LooperIdle /\ pick = NoPick /\ life = InitLife /\ PlaylistIdle

NextLife ==
  \/ \E enabled \in BOOLEAN : ScheduleLoopWithin(enabled)
  \/ CancelLoopWithin
  \/ Cleanup
  \/ \E i \in Instances : StartCallback(i) \/ StartArms(i) \/ RetireLooper(i)
                           \/ FadeOutAndAdvance(i)
  \/ PlayingChanges

SpecLife == InitManager /\ [][NextLife]_vars

Live == { i \in Instances : Exists(life, i) /\ ~life.inst[i].isDestroyed }

\* C1: the track has at most one instance that is not destroyed, and the
\* registry entry, if there is one, is that instance.
C1_RegistryIsTheLiveInstance ==
  /\ Cardinality(Live) <= 1
  /\ life.registry # Null => Live = {life.registry}

\* The part of C1 that the manager does keep: at most one instance is alive, and
\* a live instance is the registered one.
C1_AtMostOneLive == Cardinality(Live) <= 1 /\ \A i \in Live : life.registry = i

\* C8: an instance other than the registered one is destroyed; an instance
\* destroyed before its start callback ran never starts and never arms a timer;
\* only the registered instance has timers.
C8_FirstNeverStarts ==
  /\ \A i \in Instances : Exists(life, i) /\ i # life.registry => life.inst[i].isDestroyed
  /\ \A i \in Instances : life.inst[i].early => life.inst[i].phase = "new" /\ ~life.inst[i].armed
  /\ \A i \in Instances : life.inst[i].armed => i = life.registry

\* The first instance's callback has come and gone without starting it, and the
\* second instance is registered with its timer armed.
C8_Witness ==
  /\ life.skipped
  /\ life.registry # Null /\ life.inst[life.registry].armed

\* ---------------------------------------------------------------------------
\* A failed start of the alternate buffer during a handoff
\* ---------------------------------------------------------------------------

\* The step in which target.play() rejects inside _executeCrossfadeAndHandoff.
PlayFailureStep == ~log.playFailed /\ log'.playFailed

\* The continuation whose play() rejects in this step.
FailingTask(k) == tasks.x[k].pc = "play" /\ tasks'.x[k].kind = "none"

\* How many sounds of the track are audible.
Audible == Cardinality({s \in SoundIds : sounds[s].st = "playing"})
AudibleNext == Cardinality({s \in SoundIds : sounds'[s].st = "playing"})

DestroyAgainStep == ~log.destroy.again /\ log'.destroy.again

\* C19: destroy(allowFadeOut) leaves no boundary, crossfade or handoff timer
\* armed on the instance's handles; with false both buffers are stopped, with
\* true the inactive buffer is stopped and the active buffer keeps playing; a
\* later destroy call, with either argument, changes nothing of the looper, its
\* sounds, its timers or the track.
C19_DestroyCancelsAndIsIdempotent ==
  [][ /\ \A allowFadeOut \in BOOLEAN : DestroyStep(allowFadeOut) =>
           LET active == activeSound(World)
               inactive == targetSound(World) IN
           /\ looper'.isDestroyed
           /\ looper'.mainSchedule.kind = "none"
           /\ looper'.loopCrossfadeTimer.kind = "none"
           /\ looper.loopCrossfadeTimer.kind = "settle" => tasks'.settle.timer # "armed"
           /\ looper'.handoffTimer = Null
           /\ looper.handoffTimer \in TaskIds => tasks'.x[looper.handoffTimer].timer # "armed"
           /\ SilentNext(inactive)
           /\ IF allowFadeOut
                THEN Playing(World, active) => sounds'[active].st = "playing"
                ELSE SilentNext(active)
      /\ DestroyAgainStep => UNCHANGED <<looper, sounds, tasks, orphans, ps, budget>> ]_vars

\* destroy(true) was called while two buffers played, the active one still
\* plays, and destroy has been called once more.
C19_Witness ==
  /\ log.destroy.called /\ log.destroy.allowFadeOut /\ log.destroy.midHandoff
  /\ log.destroy.again
  /\ Audible = 1

\* ---------------------------------------------------------------------------
\* The registry after an instance's terminal transition
\* ---------------------------------------------------------------------------

\* api.isLooping(sound): State.hasActiveLooper.
isLooping == life.registry # Null

\* C18: the registry never maps the track to a destroyed LoopingSound, so
\* isLooping is false once the instance has been destroyed by cancel, cleanup,
\* retirement or fade-out-and-advance.
C18_RegistryNeverDestroyed ==
  isLooping => ~life.inst[life.registry].isDestroyed

\* ---------------------------------------------------------------------------
\* breakLoop during a handoff
\* ---------------------------------------------------------------------------

\* The step of a breakLoop() call that finds a handoff in progress.
BreakMidHandoffStep == ~log.breakLoop.called /\ log'.breakLoop.midHandoff

\* The _executeCrossfadeAndHandoff call k, suspended when breakLoop came, goes
\* on in this step.
InterruptedCallRuns(k) ==
  /\ k \in log.breakLoop.calls
  /\ tasks'.x[k] # tasks.x[k]
  /\ tasks'.x[k].remaining = tasks.x[k].remaining

\* C21: breakLoop during a handoff stops the target buffer, leaves the source
\* buffer playing, active and the track's sound handle, clears the active
\* segment and arms the boundary timer for the next segment (or retires when
\* there is none); the handoff that was interrupted never stops the source or
\* flips the active-buffer flag afterwards.
C21_BreakMidHandoff ==
  [][ /\ BreakMidHandoffStep =>
           LET source == activeSound(World) IN
           /\ SilentNext(targetSound(World))
           /\ Playing(World, source) => sounds'[source].st = "playing"
           /\ looper'.isA_Active = looper.isA_Active
           /\ ps'.sound = ps.sound
           /\ looper'.activeLoopSegment = 0
           /\ ~looper'.isCrossfading
           /\ MainArmed' \/ looper'.isDestroyed
      /\ \A k \in TaskIds : InterruptedCallRuns(k) =>
           /\ looper'.isA_Active = looper.isA_Active
           /\ ps'.sound = ps.sound
           /\ Playing(World, tasks.x[k].src) => sounds'[tasks.x[k].src].st = "playing" ]_vars

\* ---------------------------------------------------------------------------
\* After disableLooping
\* ---------------------------------------------------------------------------

\* C22: once disableLooping has run, loopingDisabled stays true and neither the
\* boundary timer nor the crossfade timer of the instance is armed again.
C22_DisabledStaysDisabled ==
  log.disabled => /\ looper.loopingDisabled
                  /\ ~MainArmed /\ ~CrossfadeArmed

\* ---------------------------------------------------------------------------
\* The completion of a handoff
\* ---------------------------------------------------------------------------

\* The step in which a handoff completes successfully.
HandoffSuccessStep == log'.done.flip # log.done.flip

\* C23: when a handoff completes successfully the outgoing buffer is stopped,
\* the active-buffer flag is flipped, the track's sound handle is the incoming
\* buffer, which is the active one, and isCrossfading is false; isCrossfading
\* was true from the start of the handoff up to that step.
C23_HandoffCompletion ==
  [][ HandoffSuccessStep =>
        LET done == log'.done IN
        /\ done.sourceStopped
        /\ done.isA_Active = ~looper.isA_Active
        /\ done.sound = done.activeSound
        /\ ~done.isCrossfading
        /\ looper.isCrossfading /\ done.call \notin log.lapsed ]_vars

\* ---------------------------------------------------------------------------
\* skipToNext with a later segment
\* ---------------------------------------------------------------------------

\* The step in which a segment's loops complete and _handleSegmentCompletion
\* calls _skipToSegment: the crossfade callback runs and a skip begins.
SkipBeginsStep(k) ==
  /\ budget' = budget
  /\ looper.loopCrossfadeTimer.kind = "xfade" /\ looper.loopCrossfadeTimer.remaining = 0
  /\ looper.activeLoopSegment # 0 /\ ~looper.isDestroyed
  /\ tasks.x[k].kind = "none" /\ tasks'.x[k].kind = "skip"

\* The step in which the target buffer of a skip starts to play.
SkipPlaysStep(k) ==
  /\ tasks.x[k].kind = "skip" /\ tasks.x[k].pc = "play" /\ tasks'.x[k].pc = "handoff"

\* The step in which the handoff of a skip completes successfully.
SkipSuccessStep(k) ==
  HandoffSuccessStep /\ log'.done.call = k /\ tasks.x[k].kind = "skip"

\* C24: when a segment with skipToNext completes and a later segment exists the
\* looper crossfades to the next segment's startSec and arms no boundary timer;
\* after the successful handoff the next segment is the active one,
\* loopsCompleted is 0 and the crossfade timer is armed for it.
C24_SkipToNextSegment ==
  [][ \A k \in TaskIds :
        /\ SkipBeginsStep(k) =>
             /\ config.segments[looper.activeLoopSegment].skipToNext
             /\ tasks'.x[k].seg = looper.activeLoopSegment + 1
             /\ ~MainArmed'
        /\ SkipPlaysStep(k) =>
             sounds'[tasks.x[k].tgt] =
               [st |-> "playing", pos |-> config.segments[tasks.x[k].seg].startSec]
        /\ SkipSuccessStep(k) =>
             LET next == tasks.x[k].seg IN
             /\ looper'.activeLoopSegment = next
             /\ looper'.loopsCompleted = 0
             /\ CrossfadeArmed'
             /\ looper'.loopCrossfadeTimer.remaining =
                  UntilFade(config.segments[next], sounds'[ps'.sound].pos) ]_vars

\* ---------------------------------------------------------------------------
\* The position-stabilisation wait of start()
\* ---------------------------------------------------------------------------
\* SpecStable watches the wait alone, on a track of StableDur ticks: polls are
\* POSITION_CHECK_INTERVAL apart, the new sound plays on between them, and up
\* to MaxStale reads report a position that is off by the tolerance.

StableWaiting == tasks.start.pc \in {"oldStop", "stable"}

\* AudioTimeout.wait(POSITION_CHECK_INTERVAL) between two polls: the sound
\* plays on, and ends at the track's duration.
PollInterval(w) ==
  LET a == w.L.soundA
  IN IF w.K.start.pc # "stable" \/ ~Playing(w, a) THEN w
     ELSE IF w.S[a].pos + POSITION_CHECK_INTERVAL >= StableDur
       THEN [w EXCEPT !.S[a] = [st |-> "stopped", pos |-> 0]]
     ELSE [w EXCEPT !.S[a].pos = @ + POSITION_CHECK_INTERVAL]

TimedPoll ==
  /\ StableWaiting
  /\ LET ct == IF looper.soundA \in SoundIds THEN sounds[looper.soundA].pos ELSE 0
     IN Commit(PollInterval(CheckPosition(World, ct)))

StalePoll ==
  /\ StableWaiting
  /\ LET ct == IF looper.soundA \in SoundIds THEN sounds[looper.soundA].pos ELSE 0
     IN Command(PollInterval(CheckPosition(World, ct + POSITION_CHECK_TOLERANCE)))

InitStable == InitRun(MaxStale) /\ ~config.startFromBeginning

NextStable ==
  \/ StartDelay \/ StartMedia \/ StartLoad \/ StartPlay
  \/ TimedPoll \/ StalePoll
  \/ StableWaiting /\ Destroy(FALSE)

\* The host's event loop runs every poll that is due.
SpecStable == InitStable /\ [][NextStable]_vars /\ WF_vars(NextStable)

\* The step in which the wait ends.
StableEndsStep == ~log.stable.ended /\ log'.stable.ended

\* C26: the position-stabilisation wait always terminates; it succeeds exactly
\* when 3 reads in a row, POSITION_CHECK_INTERVAL apart, were within the
\* tolerance of the seek target, and otherwise it ends while the looper can
\* still fall back to boundary scheduling: the boundary timer is armed, or the
\* looper retires because no segment lies ahead.
C26_StabilisationWaitTerminates ==
  /\ StableWaiting ~> ~StableWaiting
  /\ [][ StableEndsStep =>
           /\ log'.stable.isStable <=> log'.stable.streak >= POSITION_CHECK_REQUIRED
           /\ (~log'.stable.isStable /\ ~looper'.isDestroyed) => MainArmed' ]_vars
  /\ [](StableWaiting => log.stable.streak < POSITION_CHECK_REQUIRED)

\* ------------------------------------------------------------------------
\* Entering a segment: the step in which _handleLoopTrigger has run past its
\* guard, the segment it was given, and the active buffer's position then.
EnteredStep == log'.trigger # 0
EnteredSegment == config.segments[log'.trigger]
EnteredAt ==
  LET a == IF looper.isA_Active THEN looper.soundA ELSE looper.soundB
  IN IF a \in SoundIds /\ sounds[a].st = "playing" THEN sounds[a].pos ELSE Null

ScheduledAt(delay) == [kind |-> "xfade", remaining |-> delay, seg |-> 0]

\* _performCrossfadeLoop has run in the step: a loop iteration has begun with the
\* first handoff being prepared, or, for a segment that plays once, the
\* segment's completion has been handled.
PerformedInStep ==
  LET maxLoops == EnteredSegment.loopCount
  IN IF LoopsDone(maxLoops, 0)
       THEN log'.loopEnd.segment = log'.trigger /\ log'.loopEnd.totalIterations = 0
     ELSE /\ looper'.loopsCompleted = 1
          /\ \E k \in TaskIds : /\ tasks.x[k].kind = "none"
                                /\ tasks'.x[k].kind = "perform"
                                /\ tasks'.x[k].pc = "prep"

\* No callback has been armed in the step.
NothingArmedInStep ==
  /\ looper'.loopCrossfadeTimer \in {looper.loopCrossfadeTimer, NoTimer}
  /\ tasks'.settle.pc = "wait" => tasks.settle.pc = "wait"
  /\ Len(orphans') <= Len(orphans)

EnteredAndArmed(handle) ==
  /\ looper'.activeLoopSegment = log'.trigger
  /\ looper'.loopsCompleted = 0
  /\ looper'.loopCrossfadeTimer = handle
  /\ \A k \in TaskIds : tasks'.x[k] = tasks.x[k]

\* C28 as stated: on entering a segment the loop counter is reset to 0 and the
\* crossfade timer is armed to fire when playback reaches endSec - crossfadeMs;
\* if playback is already at or past that point, which includes a crossfade as
\* long as the segment, the crossfade is performed at once and no timer is armed.
C28_ArmsAtFadePointOrPerforms ==
  [][ EnteredStep =>
        /\ EnteredAt # Null
        /\ IF UntilFade(EnteredSegment, EnteredAt) > 0
             THEN EnteredAndArmed(ScheduledAt(UntilFade(EnteredSegment, EnteredAt)))
           ELSE PerformedInStep /\ NothingArmedInStep ]_vars

\* The position could not be read: the arming is put off by 100 ms.
EnteredAndRetrying ==
  /\ looper'.activeLoopSegment = log'.trigger
  /\ looper'.loopsCompleted = 0
  /\ tasks'.retryXfade = tasks.retryXfade + 1
  /\ NothingArmedInStep
  /\ \A k \in TaskIds : tasks'.x[k] = tasks.x[k]

\* C28 with two cases told apart: the first entry after a restart at the
\* segment arms the settle timer instead of the scheduled one, and an entry
\* whose active buffer has no readable position arms nothing and retries.
C28_ArmsSettlesOrPerforms ==
  [][ EnteredStep =>
        IF EnteredAt = Null THEN EnteredAndRetrying
        ELSE IF UntilFade(EnteredSegment, EnteredAt) > 0
          THEN IF looper.wasRestarted
                 THEN /\ EnteredAndArmed([kind |-> "settle", remaining |-> 0, seg |-> 0])
                      /\ tasks'.settle.pc = "wait" /\ ~looper'.wasRestarted
               ELSE EnteredAndArmed(ScheduledAt(UntilFade(EnteredSegment, EnteredAt)))
        ELSE PerformedInStep /\ NothingArmedInStep ]_vars

\* A segment whose crossfade is as long as the segment has been entered at its
\* start, and the first handoff is being prepared with no timer armed.
C28_Witness ==
  /\ log.trigger # 0
  /\ LET seg == config.segments[log.trigger]
     IN /\ seg.crossfadeMs = seg.endSec - seg.startSec
        /\ looper.loopsCompleted = 1 /\ looper.loopCrossfadeTimer.kind = "none"
        /\ \E k \in TaskIds : tasks.x[k].kind = "perform" /\ tasks.x[k].pc = "prep"

\* ======================================================= sequence numbers
\* utils.js keeps ACTION_SEQUENCES, a Map from an entity's id to the last
\* sequence number and the time it was recorded, once on every client. The
\* issuing client (the GM) draws numbers with getNextSequence, a receiving
\* client filters the replicated commands with shouldProcessAction, and both
\* run cleanupOldSequences once a minute. A Map is a list in insertion order;
\* an entry's timestamp is kept as its age in minutes.
SEQUENCE_MAX_AGE == 5
SEQUENCE_MAX_SIZE == 100
AgeCap == SEQUENCE_MAX_AGE + 1

MapHas(m, id) == \E i \in 1..Len(m) : m[i].id = id

\* ACTION_SEQUENCES.get(id)?.seq || 0
LastSeq(m, id) ==
  IF MapHas(m, id) THEN m[CHOOSE i \in 1..Len(m) : m[i].id = id].seq ELSE 0

\* ACTION_SEQUENCES.set(id, { seq, timestamp: Date.now() })
MapSet(m, id, seq) ==
  IF MapHas(m, id)
    THEN [i \in 1..Len(m) |-> IF m[i].id = id THEN [id |-> id, seq |-> seq, age |-> 0]
                                               ELSE m[i]]
    ELSE Append(m, [id |-> id, seq |-> seq, age |-> 0])

MapDelete(m, id) ==
  LET Other(e) == e.id # id IN SelectSeq(m, Other)

\* The entries sorted by timestamp, oldest first, lose their first n.
RECURSIVE DropOldest(_, _)
DropOldest(m, n) ==
  IF n = 0 \/ m = << >> THEN m
  ELSE LET i == CHOOSE j \in 1..Len(m) :
                  /\ \A l \in 1..Len(m) : m[l].age <= m[j].age
                  /\ \A l \in 1..(j - 1) : m[l].age < m[j].age
       IN DropOldest(SubSeq(m, 1, i - 1) \o SubSeq(m, i + 1, Len(m)), n - 1)

cleanupOldSequences(m) ==
  LET Young(e) == ~(e.age > SEQUENCE_MAX_AGE)
      kept == SelectSeq(m, Young)
  IN IF Len(kept) > SEQUENCE_MAX_SIZE
       THEN DropOldest(kept, Len(kept) - SEQUENCE_MAX_SIZE)
       ELSE kept

getNextSequence(m, id) ==
  LET next == LastSeq(m, id) + 1
  IN [next |-> next, map |-> MapSet(m, id, next)]

shouldProcessAction(m, id, seq) ==
  IF seq <= LastSeq(m, id) THEN [ok |-> FALSE, map |-> m]
  ELSE [ok |-> TRUE, map |-> MapSet(m, id, seq)]

Older(m) == [i \in 1..Len(m) |-> [m[i] EXCEPT !.age = IF @ < AgeCap THEN @ + 1 ELSE @]]

SeqStep(s) == sequences' = s /\ UNCHANGED <<LooperVars, life, pick, xfade, gaps, cleanups>>

\* The GM issues a command for playlist p: the record carries the next number.
IssueCommand(p) ==
  /\ ~sequences.deleted[p] /\ Len(sequences.issued[p]) < MaxIssued
  /\ LET r == getNextSequence(sequences.gm, p)
     IN SeqStep([sequences EXCEPT !.gm = r.map, !.issued[p] = Append(@, r.next)])

\* The updatePlaylist hook on a receiving client sees the k-th command issued
\* for p; the transport may deliver a command late or more than once.
Deliver(p, k) ==
  /\ ~sequences.deleted[p] /\ k \in 1..Len(sequences.issued[p])
  /\ Len(sequences.applied[p]) < MaxApplied
  /\ LET r == shouldProcessAction(sequences.client, p, sequences.issued[p][k])
     IN SeqStep([sequences EXCEPT !.client = r.map,
                                  !.applied[p] = IF r.ok THEN Append(@, k) ELSE @])

\* setInterval(cleanupOldSequences, SEQUENCE_CLEANUP_INTERVAL) on either client.
CleanupIssuer ==
  /\ sequences' = [sequences EXCEPT !.gm = cleanupOldSequences(@)]
  /\ UNCHANGED <<LooperVars, life, pick, xfade, gaps, cleanups>>

CleanupReceiver ==
  /\ sequences' = [sequences EXCEPT !.client = cleanupOldSequences(@)]
  /\ UNCHANGED <<LooperVars, life, pick, xfade, gaps, cleanups>>

MinutePasses ==
  /\ sequences' = [sequences EXCEPT !.gm = Older(@), !.client = Older(@)]
  /\ UNCHANGED <<LooperVars, life, pick, xfade, gaps, cleanups>>

\* Hooks.on("deletePlaylist") on both clients.
DeletePlaylist(p) ==
  /\ ~sequences.deleted[p]
  /\ SeqStep([sequences EXCEPT !.gm = MapDelete(@, p), !.client = MapDelete(@, p),
                               !.deleted[p] = TRUE])

InitSeq == LooperIdle /\ pick = NoPick /\ life = InitLife /\ PlaylistIdle

NextSeq ==
  \/ \E p \in Playlists : IssueCommand(p) \/ DeletePlaylist(p)
  \/ \E p \in Playlists, k \in 1..MaxIssued : Deliver(p, k)
  \/ CleanupIssuer \/ CleanupReceiver \/ MinutePasses

SpecSeq == InitSeq /\ [][NextSeq]_vars

StrictlyIncreasing(s) == \A i, j \in 1..Len(s) : i < j => s[i] < s[j]

\* C12: a receiving client applies the commands of a playlist in increasing
\* order of issue: a redelivered command and a command that arrives after a
\* later one has been applied are dropped, so no command is applied twice.
C12_NoCommandAppliedTwice ==
  \A p \in Playlists : StrictlyIncreasing(sequences.applied[p])

\* C13: the numbers getNextSequence returns for one playlist are strictly
\* increasing over the whole run, whatever the periodic cleanup deleted.
C13_SequenceStrictlyIncreasing ==
  \A p \in Playlists : StrictlyIncreasing(sequences.issued[p])

\* ================================================ the playlist's crossfade timer
\* cross-fade.js arms one Sound.schedule timer per playlist that starts the
\* automatic crossfade near the end of the playing track. A scheduleCrossfade
\* call is suspended on waitForMedia; its slot in xfade.call also stands for the
\* timer it arms and for the "play" listener it adds. Track 1 is the track with
\* a loop configuration, whose LoopingSound registry is the variable life.
LoopTrack == 1

SlotInUse(x, c) ==
  \/ x.call[c].pc # "none" \/ x.call[c].timer
  \/ x.reg = c \/ x.waiter = c
  \/ \E i \in 1..Len(x.listeners) : x.listeners[i] = c

\* A slot nothing refers to any more is free again.
Release(x) ==
  [x EXCEPT !.call = [c \in Calls |-> IF SlotInUse(x, c) THEN x.call[c] ELSE NoCall]]

Without(seq, c) == LET Other(e) == e # c IN SelectSeq(seq, Other)

\* cancelCrossfade(playlist): the registered handle's timeout is cancelled, the
\* entry cleared, the registered waiter's listener removed.
cancelCrossfade(x) ==
  LET x1 == IF x.reg # 0 THEN [x EXCEPT !.call[x.reg].timer = FALSE] ELSE x
      x2 == [x1 EXCEPT !.reg = 0]
  IN IF x2.waiter # 0
       THEN [x2 EXCEPT !.listeners = Without(@, x2.waiter), !.waiter = 0]
       ELSE x2

\* armTimer() of the call in slot c; past: the track is already beyond the fade
\* point (or its duration is invalid), and nothing is armed.
armTimer(x, c, past) ==
  LET x1 == [x EXCEPT !.waiter = 0]
  IN IF past THEN x1
     ELSE [x1 EXCEPT !.call[c].timer = TRUE, !.reg = c]

\* scheduleCrossfade after waitForMedia has delivered the sound.
scheduleCrossfadeResume(x, c, past) ==
  LET x1 == [x EXCEPT !.call[c].pc = "none"]
  IN IF x1.snd[x.call[c].ps] = "playing" THEN armTimer(x1, c, past)
     ELSE [x1 EXCEPT !.listeners = Append(@, c), !.waiter = c]

FreeCall(x) == CHOOSE c \in Calls : ~SlotInUse(x, c) /\ \A d \in Calls : ~SlotInUse(x, d) => c <= d

\* scheduleCrossfade(playlist, ps) up to its await; when ps.sound is there
\* waitForMedia resolves at once and the call goes on before anything else runs.
scheduleCrossfade(x, t, past) ==
  IF x.reg # 0 /\ x.call[x.reg].ps = t THEN x
  ELSE LET x1 == Release(cancelCrossfade(x))
           c == FreeCall(x1)
           x2 == [x1 EXCEPT !.call[c] = [pc |-> "waitMedia", ps |-> t, timer |-> FALSE]]
       IN x2

\* The calls whose waitForMedia resolved at once go on when the handler that
\* made them has returned.
RECURSIVE ResumeReady(_, _, _)
ResumeReady(x, cs, past) ==
  IF cs = {} THEN x
  ELSE LET c == CHOOSE d \in cs : \A e \in cs : d <= e
       IN ResumeReady(scheduleCrossfadeResume(x, c, past), cs \ {c}, past)

NewReady(x0, x) ==
  { c \in Calls : /\ x.call[c].pc = "waitMedia" /\ x0.call[c].pc # "waitMedia"
                  /\ x.snd[x.call[c].ps] # "none" }

AfterHandler(x0, x, past) == Release(ResumeReady(x, NewReady(x0, x), past))

\* scheduleLoopWithin as far as the playlist sees it: a looper that is about to
\* be created cancels the playlist-level crossfade.
scheduleLoopWithinCrossfade(x, l, enabled) ==
  IF l.playing /\ enabled THEN cancelCrossfade(x) ELSE x

\* The "play" event of a sound: every listener still attached runs armTimer.
RECURSIVE FireListeners(_, _, _, _)
FireListeners(x, ls, t, past) ==
  IF ls = << >> THEN x
  ELSE LET c == Head(ls)
       IN IF x.call[c].ps = t
            THEN FireListeners(armTimer([x EXCEPT !.listeners = Without(@, c)], c, past),
                               SubSeq(ls, 2, Len(ls)), t, past)
            ELSE FireListeners(x, SubSeq(ls, 2, Len(ls)), t, past)

\* Sound.stop cancels the events scheduled on the sound.
StopSound(x, t) ==
  [x EXCEPT !.snd[t] = "none",
            !.call = [c \in Calls |-> IF x.call[c].ps = t
                                        THEN [x.call[c] EXCEPT !.timer = FALSE]
                                        ELSE x.call[c]]]

\* A scheduleCrossfade call can be made: there is a slot for it.
CanCall(x) == \E c \in Calls : ~SlotInUse(Release(cancelCrossfade(x)), c)

Played(x) == [x EXCEPT !.plays = @ - 1]

CrossfadeStep(x, l) ==
  /\ xfade' = x /\ life' = Sweep(l)
  /\ UNCHANGED <<LooperVars, pick, sequences, gaps, cleanups>>

\* ps.sound is assigned: the track's media is there, not yet playing.
MediaLoaded(t) ==
  /\ xfade.snd[t] = "none"
  /\ CrossfadeStep([xfade EXCEPT !.snd[t] = "loaded"], life)

\* Playlist.playAll's setTimeout callback for the first track:
\* scheduleCrossfade(this, first); scheduleLoopWithin(first).
PlayAll(enabled, past) ==
  /\ xfade.plays > 0
  /\ CanCall(xfade)
  /\ enabled => \E i \in Instances : ~Exists(Sweep(cancelLoopWithin(life)), i)
  /\ LET l0 == [life EXCEPT !.playing = TRUE]
         x1 == scheduleCrossfade(xfade, LoopTrack, past)
         x2 == scheduleLoopWithinCrossfade(x1, l0, enabled)
     IN CrossfadeStep(Played(AfterHandler(xfade, x2, past)), scheduleLoopWithin(l0, enabled))

\* Sound.play of track t resolves inside the wrapper: the sound plays and its
\* "play" listeners run; then the wrapper calls _schedulePostPlayActions(ps,
\* sound): cancelLoopWithin, scheduleLoopWithin, then scheduleCrossfade. Only
\* the loop track has a loop configuration.
SoundPlays(t, enabled, past) ==
  /\ xfade.snd[t] = "loaded" /\ xfade.plays > 0
  /\ t # LoopTrack => ~enabled
  /\ enabled => \E i \in Instances : ~Exists(Sweep(cancelLoopWithin(life)), i)
  /\ LET l0 == IF t = LoopTrack THEN [life EXCEPT !.playing = TRUE] ELSE life
         x0 == [xfade EXCEPT !.snd[t] = "playing"]
         x1 == Release(FireListeners(x0, x0.listeners, t, past))
         l1 == IF t = LoopTrack THEN scheduleLoopWithin(cancelLoopWithin(l0), enabled)
               ELSE l0
         x2 == IF t = LoopTrack THEN scheduleLoopWithinCrossfade(x1, l0, enabled) ELSE x1
         x3 == scheduleCrossfade(x2, t, past)
     IN /\ CanCall(x2)
        /\ CrossfadeStep(Played(AfterHandler(x1, x3, past)), l1)

\* api.startLoop or the loop toggle: scheduleLoopWithin on its own.
StartLoop ==
  /\ life.playing /\ xfade.plays > 0
  /\ \E i \in Instances : ~Exists(Sweep(cancelLoopWithin(life)), i)
  /\ CrossfadeStep(Played(Release(scheduleLoopWithinCrossfade(xfade, life, TRUE))),
                   scheduleLoopWithin(life, TRUE))

\* waitForMedia's poll finds ps.sound and the call goes on.
MediaFound(c, past) ==
  /\ xfade.call[c].pc = "waitMedia" /\ xfade.snd[xfade.call[c].ps] # "none"
  /\ CrossfadeStep(Release(scheduleCrossfadeResume(xfade, c, past)), life)

\* waitForMedia gives up after its polls: if (!sound) return.
MediaTimeout(c) ==
  /\ xfade.call[c].pc = "waitMedia" /\ xfade.snd[xfade.call[c].ps] = "none"
  /\ CrossfadeStep(Release([xfade EXCEPT !.call[c].pc = "none"]), life)

\* An armed timer fires: performCrossfade(playlist, ps) up to its first await.
TimerFires(c) ==
  /\ xfade.call[c].timer /\ xfade.snd[xfade.call[c].ps] = "playing"
  /\ LET t == xfade.call[c].ps
         x1 == [xfade EXCEPT !.call[c].timer = FALSE]
     IN CrossfadeStep(IF x1.fading[t] THEN Release(x1)
                      ELSE Release(cancelCrossfade([x1 EXCEPT !.fading[t] = TRUE])), life)

\* setTimeout(() => State.clearFadingSound(...), fadeMs + 500)
ReleaseFading(t) ==
  /\ xfade.fading[t]
  /\ CrossfadeStep([xfade EXCEPT !.fading[t] = FALSE], life)

\* The track's sound stops (its end, or the fade-out of a crossfade).
SoundStops(t) ==
  /\ xfade.snd[t] # "none"
  /\ CrossfadeStep(Release(StopSound(xfade, t)),
                   IF t = LoopTrack THEN [life EXCEPT !.playing = FALSE] ELSE life)

InitCrossfade == LooperIdle /\ pick = NoPick /\ life = InitLife /\ PlaylistIdle

NextCrossfade ==
  \/ \E t \in Tracks : MediaLoaded(t) \/ ReleaseFading(t) \/ SoundStops(t)
  \/ \E t \in Tracks, enabled \in BOOLEAN, past \in BOOLEAN : SoundPlays(t, enabled, past)
  \/ \E enabled \in BOOLEAN, past \in BOOLEAN : PlayAll(enabled, past)
  \/ StartLoop
  \/ \E c \in Calls : MediaTimeout(c) \/ TimerFires(c)
  \/ \E c \in Calls, past \in BOOLEAN : MediaFound(c, past)
  \/ \E i \in Instances : StartCallback(i) \/ StartArms(i)
  \/ CancelLoopWithin

SpecCrossfade == InitCrossfade /\ [][NextCrossfade]_vars

ArmedTimers == { c \in Calls : xfade.call[c].timer }

\* C14: while a LoopingSound that is not destroyed is registered for the
\* playing track, no playlist-level crossfade timer is armed.
C14_NoTimerWhileLooperRegistered ==
  (/\ life.registry # Null /\ ~life.inst[life.registry].isDestroyed
   /\ xfade.snd[LoopTrack] = "playing")
    => ArmedTimers = {}

\* C15: the playlist has at most one armed crossfade timer, and it is the one
\* whose handle State._crossfadeTimers holds.
C15_AtMostOneArmedTimer ==
  /\ Cardinality(ArmedTimers) <= 1
  /\ \A c \in ArmedTimers : xfade.reg = c

\* ======================================================= the silent gaps
\* silence.js: playSilence creates a temporary gap track, registers its state
\* with State.setSilenceState and returns a promise that the gap's timer
\* callback or State.cleanup resolves. A playSilence call is "creating" while
\* it awaits createAndPlayGap, "waiting" while its AudioTimeout runs,
\* "teardown" while the callback awaits the deletion of the gap track.
FreeGap(s) == CHOOSE i \in Gaps : s.g[i].pc = "none" /\ \A j \in Gaps : s.g[j].pc = "none" => i <= j

\* playSilence up to await createAndPlayGap; applicable: the client is the GM,
\* the mode is not simultaneous and the gap duration is positive.
playSilence(s, applicable, sourceSound) ==
  LET i == FreeGap(s)
  IN IF ~applicable
       THEN [s EXCEPT !.g[i] = [NoGap EXCEPT !.pc = "done", !.promise = "false"]]
       ELSE [s EXCEPT !.g[i] = [NoGap EXCEPT !.pc = "creating", !.promise = "pending",
                                             !.sourceSound = sourceSound]]

\* createAndPlayGap returned null: return Promise.resolve(false).
GapFailed(s, i) == [s EXCEPT !.g[i].pc = "done", !.g[i].promise = "false"]

\* The gap track exists and plays (playlist.playSound(gap), which the wrapper
\* lets pass for a gap): new AudioTimeout(gapMs), State.setSilenceState.
GapStarted(s, i) ==
  [s EXCEPT !.g[i].pc = "waiting", !.g[i].timer = "armed", !.g[i].gap = "playing",
            !.playing = TRUE, !.reg = i]

\* teardownGap up to await state.gap.delete(): State.clearSilenceState(playlist).
teardownGap(s, i) ==
  [s EXCEPT !.reg = 0, !.teardowns = ~@, !.g[i].pc = "teardown"]

\* A callback that looks at the registry only, to show what the verdict
\* depends on.
TimerCallbackRegistryOnly(s, i) ==
  LET s1 == [s EXCEPT !.g[i].timer = "none"]
  IN IF s1.reg = 0 THEN [s1 EXCEPT !.g[i].pc = "done"]
     ELSE teardownGap([s1 EXCEPT !.completed = ~@,
                                 !.g[i].wasPlaying = s1.playing], i)

\* timer.complete.then(...) up to await teardownGap.
TimerCallback(s, i) ==
  LET s1 == [s EXCEPT !.g[i].timer = "none"]
  IN IF s1.reg = 0 THEN [s1 EXCEPT !.g[i].pc = "done"]
     ELSE IF s1.g[i].cancelled THEN [s1 EXCEPT !.g[i].pc = "done"]
     ELSE teardownGap([s1 EXCEPT !.completed = ~@,
                                 !.g[i].wasPlaying = s1.playing], i)

\* State.cleanup, step 2: the registered gap is marked cancelled, its timer
\* cancelled, its gap track deleted, its promise resolved with true, the state
\* cleared.
cleanSilence(s) ==
  IF s.reg = 0 THEN s
  ELSE [s EXCEPT !.g[s.reg].cancelled = TRUE,
                 !.g[s.reg].timer = IF @ = "armed" THEN "cancelled" ELSE @,
                 !.g[s.reg].gap = "deleted",
                 !.g[s.reg].promise = IF @ = "pending" THEN "true" ELSE @,
                 !.reg = 0]

Advanced(s, by, kind, track) ==
  [s EXCEPT !.advance = [flip |-> ~s.advance.flip, by |-> by, kind |-> kind,
                         track |-> track, reg |-> s.reg]]

\* The advance after track from, in playback order 1..MaxTracks:
\* playlist.playSound(next), whose wrapper cancels a registered gap; or, after
\* the last track, maybeLoopPlaylist's playAll; or stopAll, whose wrapper runs
\* State.cleanup.
playNextOrLoop(s, from, by, loopPlaylist) ==
  IF from < MaxTracks
    THEN [cleanSilence(Advanced(s, by, "play", from + 1)) EXCEPT !.playing = TRUE]
  ELSE IF loopPlaylist
    THEN [Advanced(s, by, "loop", 1) EXCEPT !.playing = TRUE]
  ELSE [cleanSilence(Advanced(s, by, "stop", 0)) EXCEPT !.playing = FALSE]

\* The callback after teardownGap: the gap track is deleted, the playlist is
\* advanced if it was playing and a source track was recorded, and
\* resolve(false).
TeardownFinished(s, i, loopPlaylist) ==
  LET s1 == [s EXCEPT !.g[i].gap = "deleted"]
      s2 == IF s1.g[i].wasPlaying /\ s1.g[i].sourceSound # 0
              THEN playNextOrLoop(s1, s1.g[i].sourceSound, i, loopPlaylist)
            ELSE s1
  IN [s2 EXCEPT !.g[i].pc = "done", !.g[i].promise = IF @ = "pending" THEN "false" ELSE @]

\* ------------------------------------------- the looper's _fadeOutAndAdvance
\* performCrossfade(playlist, ps) as _fadeOutAndAdvance uses it: nothing
\* happens unless the client owns the playlist and the crossfade duration is
\* positive; else the next track (or the first, with playlist loop) is started
\* under an equal-power crossfade, or the track is faded out and the playlist
\* stopped.
performCrossfade(s, isOwner, fadeMs, loopPlaylist) ==
  IF ~isOwner \/ fadeMs <= 0 THEN s
  ELSE LET from == s.fo.track
           s1 == IF from < MaxTracks
                   THEN [Advanced(s, ByLooper, "play", from + 1) EXCEPT !.playing = TRUE]
                 ELSE IF loopPlaylist
                   THEN [Advanced(s, ByLooper, "play", 1) EXCEPT !.playing = TRUE]
                 ELSE [cleanSilence(Advanced(s, ByLooper, "stop", 0)) EXCEPT
                         !.playing = FALSE]
       IN [s1 EXCEPT !.fo.faded = TRUE, !.fo.advanced = @ + 1]

\* _fadeOutAndAdvance up to await fadeOutAndStop; mode is what
\* Flags.getPlaybackMode(playlist) reports.
fadeOutAndAdvance(s, track, mode, isGM, fadeMs, loopPlaylist) ==
  LET s1 == [s EXCEPT !.fo = [NoFadeOut EXCEPT !.track = track, !.mode = mode,
                                               !.isGM = isGM, !.isDestroyed = TRUE]]
  IN IF mode = "crossfade"
       THEN [performCrossfade(s1, isGM, fadeMs, loopPlaylist) EXCEPT !.fo.pc = "done"]
     ELSE [s1 EXCEPT !.fo.pc = "fade"]

LooperAdvance(s, loopPlaylist) ==
  [playNextOrLoop(s, s.fo.track, ByLooper, loopPlaylist) EXCEPT
     !.fo.advanced = @ + 1, !.fo.pc = "done"]

\* After await fadeOutAndStop(activeSound, fadeMs).
FadeOutStopped(s, applicable, loopPlaylist) ==
  LET s1 == [s EXCEPT !.fo.faded = TRUE]
  IN IF ~s1.fo.isGM THEN [s1 EXCEPT !.fo.pc = "done"]
     ELSE IF s1.fo.mode = "silence"
       THEN IF applicable
              THEN [playSilence(s1, TRUE, 0) EXCEPT !.fo.pc = "gap", !.fo.gap = FreeGap(s1)]
            ELSE LooperAdvance(playSilence(s1, FALSE, 0), loopPlaylist)
     ELSE [s1 EXCEPT !.fo.pc = "wait"]

\* await Silence.playSilence(playlist) has its value.
SilenceAwaited(s, loopPlaylist) ==
  IF s.g[s.fo.gap].promise = "false" THEN LooperAdvance(s, loopPlaylist)
  ELSE [s EXCEPT !.fo.pc = "done"]

\* ------------------------------------------------------------------ actions
SilenceStep(s) ==
  /\ gaps' = s
  /\ UNCHANGED <<LooperVars, life, pick, sequences, xfade, cleanups>>

\* handleTrackCompletion: Silence.playSilence(playlist, playlistSound).
\* One of the MaxGaps calls of a run is kept for the looper's.
PlaySilence(applicable, sourceSound) ==
  /\ Cardinality({i \in Gaps : gaps.g[i].pc = "none"}) >
       (IF gaps.fo.pc \in {"none", "fade"} THEN 1 ELSE 0)
  /\ SilenceStep(playSilence(gaps, applicable, sourceSound))

GapCreated(i) == gaps.g[i].pc = "creating" /\ SilenceStep(GapStarted(gaps, i))

GapCreationFails(i) == gaps.g[i].pc = "creating" /\ SilenceStep(GapFailed(gaps, i))

TimerExpires(i) ==
  /\ gaps.g[i].pc = "waiting" /\ gaps.g[i].timer = "armed"
  /\ SilenceStep(TimerCallback(gaps, i))

\* The completion of a cancelled AudioTimeout may still run its callback.
CancelledTimerFires(i) ==
  /\ gaps.g[i].pc = "waiting" /\ gaps.g[i].timer = "cancelled"
  /\ SilenceStep(TimerCallback(gaps, i))

TeardownDone(i, loopPlaylist) ==
  /\ gaps.g[i].pc = "teardown"
  /\ SilenceStep(TeardownFinished(gaps, i, loopPlaylist))

\* cancelSilentGap, or any State.cleanup with cleanSilence.
CancelSilentGap ==
  /\ gaps.reg # 0
  /\ SilenceStep(cleanSilence(gaps))

\* The last segment of the looper's track completes with skipToNext.
FadeOutAndAdvanceBegins(track, mode, isGM, fadeMs, loopPlaylist) ==
  /\ gaps.fo.pc = "none"
  /\ SilenceStep(fadeOutAndAdvance(gaps, track, mode, isGM, fadeMs, loopPlaylist))

FadedOutAndStopped(applicable, loopPlaylist) ==
  /\ gaps.fo.pc = "fade"
  /\ SilenceStep(FadeOutStopped(gaps, applicable, loopPlaylist))

\* AudioTimeout.wait(100).then(() => playNextOrLoop()).
AdvanceWaitDone(loopPlaylist) ==
  /\ gaps.fo.pc = "wait"
  /\ SilenceStep(LooperAdvance(gaps, loopPlaylist))

SilencePromiseResolved(loopPlaylist) ==
  /\ gaps.fo.pc = "gap" /\ gaps.g[gaps.fo.gap].promise \in {"true", "false"}
  /\ SilenceStep(SilenceAwaited(gaps, loopPlaylist))

InitSilence == LooperIdle /\ pick = NoPick /\ life = InitLife /\ PlaylistIdle

PlaybackModes == {"crossfade", "silence", "plain"}

NextSilence ==
  \/ \E applicable \in BOOLEAN, sourceSound \in Tracks : PlaySilence(applicable, sourceSound)
  \/ \E i \in Gaps : GapCreated(i) \/ GapCreationFails(i) \/ TimerExpires(i)
                     \/ CancelledTimerFires(i)
  \/ \E i \in Gaps, loopPlaylist \in BOOLEAN : TeardownDone(i, loopPlaylist)
  \/ CancelSilentGap
  \/ \E track \in Tracks, mode \in PlaybackModes, isGM \in BOOLEAN,
        fadeMs \in 0..1, loopPlaylist \in BOOLEAN :
       FadeOutAndAdvanceBegins(track, mode, isGM, fadeMs, loopPlaylist)
  \/ \E applicable \in BOOLEAN, loopPlaylist \in BOOLEAN :
       FadedOutAndStopped(applicable, loopPlaylist)
  \/ \E loopPlaylist \in BOOLEAN :
       AdvanceWaitDone(loopPlaylist) \/ SilencePromiseResolved(loopPlaylist)

\* Every continuation that can run does run.
SpecSilence == InitSilence /\ [][NextSilence]_vars /\ WF_vars(NextSilence)

\* C16: a gap timer that runs belongs to the gap the registry holds, so the
\* playlist has at most one active gap.
C16_GapTimerHasRegistryEntry ==
  \A i \in Gaps : gaps.g[i].timer = "armed" => gaps.reg = i

\* C20: every promise playSilence returned is resolved in the end.
C20_EveryPromiseResolves ==
  \A i \in Gaps : (gaps.g[i].promise = "pending") ~> (gaps.g[i].promise # "pending")

\* ---------------------------------------------------------------------------
\* The last segment completes with skipToNext
\* ---------------------------------------------------------------------------

\* The gap _fadeOutAndAdvance awaited has run out and was torn down by its own
\* callback, uncancelled; or no gap came to be (not applicable, creation
\* failed).
AwaitedGapCompleted(s) ==
  LET gap == s.g[s.fo.gap] IN
  /\ gap.pc = "done" /\ ~gap.cancelled /\ gap.timer = "none"
  /\ gap.gap \in {"none", "deleted"}

\* What the advance after track from does.
AdvanceOf(from, loopPlaylistKinds) ==
  IF from < MaxTracks THEN {[kind |-> "play", track |-> from + 1]}
  ELSE {[kind |-> k, track |-> IF k = "stop" THEN 0 ELSE 1] : k \in loopPlaylistKinds}

LooperAdvancedStep == gaps'.fo.advanced # gaps.fo.advanced

FadeOutAndAdvanceSafe ==
  [][ /\ (gaps.fo.pc = "none" /\ gaps'.fo.pc # "none") => gaps'.fo.isDestroyed
      /\ LooperAdvancedStep =>
           /\ gaps'.fo.isGM /\ gaps'.fo.faded
           /\ gaps'.fo.advanced = 1
           /\ gaps'.advance.flip # gaps.advance.flip /\ gaps'.advance.by = ByLooper
           /\ [kind |-> gaps'.advance.kind, track |-> gaps'.advance.track]
                \in AdvanceOf(gaps'.fo.track, {"play", "loop", "stop"})
           /\ (gaps.fo.mode = "silence" /\ gaps.fo.gap # 0) => AwaitedGapCompleted(gaps)
    ]_vars

\* The call has returned on the GM client: the sound was faded out and the
\* playlist advanced once, unless the awaited gap was cancelled.
FadeOutAndAdvanceDone ==
  (gaps.fo.pc = "done" /\ gaps.fo.isGM) =>
     /\ gaps.fo.faded
     /\ \/ gaps.fo.advanced = 1
        \/ /\ gaps.fo.mode = "silence" /\ gaps.fo.gap # 0
           /\ gaps.g[gaps.fo.gap].cancelled /\ gaps.fo.advanced = 0

\* C25: when the last segment completes with skipToNext the looper marks itself
\* destroyed and fades the active sound out, and then the GM client advances
\* the playlist exactly once: to the next track in playback order, else by
\* restarting the playlist, else by stopping it; with silence enabled only
\* after the silent gap has completed without being cancelled.
C25_FadeOutThenOneAdvance ==
  /\ FadeOutAndAdvanceSafe
  /\ []FadeOutAndAdvanceDone
  /\ (gaps.fo.pc # "none") ~> (gaps.fo.pc = "done")

\* ---------------------------------------------------------------------------
\* The timer callback of a cancelled gap
\* ---------------------------------------------------------------------------

\* The completion of gap i's timer runs after State.cleanup cancelled the gap.
CancelledCallbackStep(i) ==
  /\ gaps.g[i].cancelled /\ gaps.g[i].pc = "waiting"
  /\ gaps'.g[i].timer = "none" /\ gaps.g[i].timer # "none"

\* C27: the timer callback of a gap that State.cleanup cancelled does nothing
\* when the cancelled timer's completion still fires: no completed silenceEnd
\* is emitted, no silence state (the registry's, which may be a newer gap's) is
\* torn down or cleared, no gap track deleted, and the playlist is neither
\* advanced nor stopped.
C27_CancelledGapCallbackIsNoOp ==
  [][ \A i \in Gaps : CancelledCallbackStep(i) =>
        /\ gaps'.completed = gaps.completed
        /\ gaps'.teardowns = gaps.teardowns
        /\ gaps'.reg = gaps.reg
        /\ gaps'.advance = gaps.advance /\ gaps'.playing = gaps.playing
        /\ gaps'.fo = gaps.fo
        /\ gaps'.g[i] = [gaps.g[i] EXCEPT !.timer = "none", !.pc = "done"]
        /\ \A j \in Gaps \ {i} : gaps'.g[j] = gaps.g[j] ]_vars

\* The callback of a cancelled gap has run while a newer gap was registered.
C27_Witness ==
  \E i \in Gaps :
    /\ gaps.g[i].cancelled /\ gaps.g[i].pc = "done" /\ gaps.g[i].timer = "none"
    /\ gaps.reg \notin {0, i} /\ gaps.g[gaps.reg].timer = "armed"

\* ---------------------------------------------------------------------------
\* A gap's timer runs out
\* ---------------------------------------------------------------------------

\* The timer of gap i, which nothing cancelled, completes and its callback runs.
UncancelledExpiryStep(i) ==
  /\ gaps.g[i].pc = "waiting" /\ gaps.g[i].timer = "armed" /\ ~gaps.g[i].cancelled
  /\ gaps'.g[i].timer = "none"

\* The callback of gap i resumes after await teardownGap.
TornDownStep(i) == gaps.g[i].pc = "teardown" /\ gaps'.g[i].pc = "done"

\* The callback goes on to tear the gap down: the registry is cleared, and
\* nothing is advanced yet.
ExpiryTearsDown(i) ==
  UncancelledExpiryStep(i) =>
    /\ gaps'.reg = 0 /\ gaps'.g[i].pc = "teardown"
    /\ gaps'.teardowns # gaps.teardowns
    /\ gaps'.advance = gaps.advance

\* With the gap track deleted and the gap's registry state gone the playlist is
\* advanced once, after the source track, if it was playing and a source track
\* was recorded; otherwise it is not advanced.
TornDownThenAdvanced(i) ==
  TornDownStep(i) =>
    /\ gaps'.g[i].gap = "deleted"
    /\ IF gaps.g[i].wasPlaying /\ gaps.g[i].sourceSound # 0
         THEN /\ gaps'.advance.flip # gaps.advance.flip
              /\ gaps'.advance.by = i /\ gaps'.advance.reg # i
              /\ [kind |-> gaps'.advance.kind, track |-> gaps'.advance.track]
                   \in AdvanceOf(gaps.g[i].sourceSound, {"loop", "stop"})
       ELSE gaps'.advance = gaps.advance

\* C30: when a gap's timer expires uncancelled, the registry state is cleared
\* and the gap track deleted before the playlist is advanced, and the playlist
\* is advanced exactly once: to the track after the source track in playback
\* order, or by playlist loop or stopAll if there is none, and only if the
\* playlist was playing and a source track was recorded.
C30_ExpiryTearsDownThenAdvances ==
  [][ \A i \in Gaps : ExpiryTearsDown(i) /\ TornDownThenAdvanced(i) ]_vars

\* ===================================================== State.cleanup
\* state-manager.js: cleanup(playlist, options) runs without an await, so it is
\* one step; cleanups.trace lists what it did in the order the code does it.
\* The option allowFadeOut is handed to destroy(), whose treatment of the two
\* buffers is modelled with the LoopingSound itself.
Options ==
  [cleanSilence : BOOLEAN, cleanCrossfade : BOOLEAN, cleanLoopers : BOOLEAN,
   onlySound : 0..MaxTracks]

\* Step 1: the registered handle's timeout is cancelled, the entry cleared, the
\* waiter's listener removed, the waiter cleared.
cleanCrossfade(x) ==
  LET x1 == IF x.reg # 0 THEN [x EXCEPT !.call[x.reg].timer = FALSE] ELSE x
      x2 == [x1 EXCEPT !.reg = 0]
      x3 == IF x2.waiter # 0 THEN [x2 EXCEPT !.listeners = Without(@, x2.waiter)] ELSE x2
  IN [x3 EXCEPT !.waiter = 0]

cleanCrossfadeTrace(x) ==
  (IF x.reg # 0 THEN <<"cancelCrossfadeTimer">> ELSE << >>)
    \o <<"clearCrossfadeTimer">>
    \o (IF x.waiter # 0 THEN <<"removePlayListener">> ELSE << >>)
    \o <<"clearPlayWaiter">>

cleanSilenceTrace(s) ==
  IF s.reg = 0 THEN << >>
  ELSE <<"markGapCancelled", "cancelGapTimer", "resolveGap", "clearSilenceState">>

\* Step 3 looks at the playlist's sounds, or at onlySound alone; the track with
\* the loop configuration is LoopTrack.
CleansLooper(l, o) == o.onlySound \in {0, LoopTrack} /\ l.registry # Null

cleanLoopersTrace(l, o) ==
  IF CleansLooper(l, o) THEN <<"abortLooper", "destroyLooper", "clearActiveLooper">>
  ELSE << >>

\* A cleanup that destroys the loopers before it looks at the crossfade and
\* the silence state, to show what the verdict depends on.
stateCleanupLoopersFirst(c, o) ==
  LET c1 == IF o.cleanLoopers
              THEN [c EXCEPT !.l = IF CleansLooper(c.l, o) THEN cleanup(c.l) ELSE c.l,
                             !.trace = @ \o cleanLoopersTrace(c.l, o)]
              ELSE c
      c2 == IF o.cleanCrossfade
              THEN [c1 EXCEPT !.x = cleanCrossfade(c1.x),
                              !.trace = @ \o cleanCrossfadeTrace(c1.x)]
              ELSE c1
  IN IF o.cleanSilence
       THEN [c2 EXCEPT !.s = cleanSilence(c2.s), !.trace = @ \o cleanSilenceTrace(c2.s)]
       ELSE c2

\* cleanup(playlist, options) on c = [x, s, l, trace]: the crossfade state, the
\* silence state, the loop track's loopers and what was done so far.
stateCleanup(c, o) ==
  LET c1 == IF o.cleanCrossfade
              THEN [c EXCEPT !.x = cleanCrossfade(c.x),
                             !.trace = @ \o cleanCrossfadeTrace(c.x)]
              ELSE c
      c2 == IF o.cleanSilence
              THEN [c1 EXCEPT !.s = cleanSilence(c1.s),
                              !.trace = @ \o cleanSilenceTrace(c1.s)]
              ELSE c1
  IN IF o.cleanLoopers
       THEN [c2 EXCEPT !.l = IF CleansLooper(c2.l, o) THEN cleanup(c2.l) ELSE c2.l,
                       !.trace = @ \o cleanLoopersTrace(c2.l, o)]
       ELSE c2

StateCleanup(o) ==
  LET c == stateCleanup([x |-> xfade, s |-> gaps, l |-> life, trace |-> << >>], o)
  IN /\ xfade' = Release(c.x) /\ gaps' = c.s /\ life' = Sweep(c.l)
     /\ cleanups' = [trace |-> c.trace, options |-> o]
     /\ UNCHANGED <<LooperVars, pick, sequences>>

\* The states cleanup is called in: a crossfade timer armed for the playing
\* track or a scheduleCrossfade call waiting for the "play" event, a gap being
\* created or running, a looper of the loop track new, running or retired.
XfadePlaying == [InitXfade EXCEPT !.snd[LoopTrack] = "playing"]
XfadeArmed == AfterHandler(XfadePlaying, scheduleCrossfade(XfadePlaying, LoopTrack, FALSE), FALSE)
XfadeLoaded == [InitXfade EXCEPT !.snd[LoopTrack] = "loaded"]
XfadeWaiting == AfterHandler(XfadeLoaded, scheduleCrossfade(XfadeLoaded, LoopTrack, FALSE), FALSE)

GapsCreating == playSilence(InitGaps, TRUE, LoopTrack)
GapsRunning == GapStarted(GapsCreating, FreeGap(InitGaps))

LifeNew == scheduleLoopWithin(InitLife, TRUE)
LifeRunning == StartArmsDone(StartCallbackDone(LifeNew, LifeNew.registry), LifeNew.registry)
LifeRetired == RetireInstance(LifeRunning, LifeRunning.registry)

InitCleanup ==
  /\ LooperIdle /\ pick = NoPick /\ sequences = InitSequences
  /\ xfade \in {InitXfade, XfadePlaying, XfadeArmed, XfadeWaiting}
  /\ gaps \in {InitGaps, GapsCreating, GapsRunning}
  /\ life \in {InitLife, LifeNew, LifeRunning, LifeRetired}
  /\ cleanups = InitCleanups

NextCleanup ==
  \/ \E o \in Options : StateCleanup(o)
  \/ \E i \in Gaps : GapCreated(i) \/ TimerExpires(i) \/ CancelledTimerFires(i)
  \/ \E i \in Gaps, advance \in BOOLEAN : TeardownDone(i, advance)
  \/ \E i \in Instances : StartCallback(i) \/ StartArms(i)
  \/ \E c \in Calls : TimerFires(c)

SpecCleanup == InitCleanup /\ [][NextCleanup]_vars

AllEnabled(o) == o.cleanSilence /\ o.cleanCrossfade /\ o.cleanLoopers

CleanupOrder ==
  <<"cancelCrossfadeTimer", "clearCrossfadeTimer", "removePlayListener", "clearPlayWaiter",
    "markGapCancelled", "cancelGapTimer", "resolveGap", "clearSilenceState",
    "abortLooper", "destroyLooper", "clearActiveLooper">>

Rank(e) == CHOOSE k \in 1..Len(CleanupOrder) : CleanupOrder[k] = e

InOrder(t) == \A i, j \in 1..Len(t) : i < j => Rank(t[i]) < Rank(t[j])

Did(t, e) == \E i \in 1..Len(t) : t[i] = e

\* C17: a cleanup does the crossfade step, then the silence step, then the
\* looper step, each in its own order; with all options enabled a registered
\* crossfade timer is cancelled and cleared and the waiter removed, an active
\* gap is marked cancelled, its timer cancelled, its promise resolved and its
\* state cleared, and the loopers in scope are destroyed and unregistered.
C17_CleanupOrderIsFixed ==
  [][LET o == cleanups'.options IN (o # << >> /\ StateCleanup(o)) =>
       /\ InOrder(cleanups'.trace)
       /\ AllEnabled(o) =>
            /\ Did(cleanups'.trace, "clearCrossfadeTimer") /\ Did(cleanups'.trace, "clearPlayWaiter")
            /\ xfade'.reg = 0 /\ xfade'.waiter = 0 /\ xfade'.listeners = Without(xfade.listeners, xfade.waiter)
            /\ xfade.reg # 0 =>
                 /\ Did(cleanups'.trace, "cancelCrossfadeTimer")
                 /\ ~xfade'.call[xfade.reg].timer
            /\ gaps'.reg = 0
            /\ gaps.reg # 0 =>
                 /\ Did(cleanups'.trace, "resolveGap")
                 /\ gaps'.g[gaps.reg].cancelled
                 /\ gaps'.g[gaps.reg].timer # "armed"
                 /\ gaps'.g[gaps.reg].promise # "pending"
            /\ CleansLooper(life, o) =>
                 /\ Did(cleanups'.trace, "destroyLooper")
                 /\ life'.registry = Null
                 /\ \/ life'.inst[life.registry] = NoInstance
                    \/ life'.inst[life.registry].isDestroyed /\ life'.inst[life.registry].isAborted
            /\ ~CleansLooper(life, o) => life' = Sweep(life)]_vars

\* A cleanup with all options enabled has just done every step: a timer and a
\* waiter, a gap and a looper were there.
C17_Witness ==
  /\ cleanups.options # << >> /\ AllEnabled(cleanups.options)
  /\ Did(cleanups.trace, "cancelCrossfadeTimer")
  /\ Did(cleanups.trace, "resolveGap")
  /\ Did(cleanups.trace, "destroyLooper")

\* ============================================== the loop commands of a track
\* internal-loop.js: breakLoopWithin, nextSegmentWithin, previousSegmentWithin
\* and disableAllLoopsWithin, each up to its await of ps.setFlag. The looper is
\* seen through what the functions read of it; its methods are recorded as
\* calls, with the effect on activeLoopSegment that the call has at once.
Invoked(s, command, isGM) ==
  [s EXCEPT !.within.last = [flip |-> ~@.flip, command |-> command, isGM |-> isGM],
            !.within.left = @ - 1]

\* looper.<method>() followed by ps.setFlag(MODULE_ID, key, {..., seq: getNextSequence(ps.id)}).
ExecuteThenReplicate(s, method, key, targetIndex) ==
  LET r == getNextSequence(s.gm, LoopTrack)
      called == [s EXCEPT !.within.trace = Append(@, method),
                          !.within.activeLoopSegment =
                             IF method \in {"breakLoop", "disableLooping"} THEN 0 ELSE @]
  IN [called EXCEPT !.gm = r.map,
                    !.within.trace = Append(@, "setFlag"),
                    !.within.pending =
                       Append(@, [key |-> key, seq |-> r.next, targetIndex |-> targetIndex])]

HasLiveLooper(s) == s.within.registered /\ ~s.within.isDestroyed

\* A variant without the check of the user's role, to show what the verdict
\* depends on.
breakLoopWithinAnyUser(s, isGM) ==
  IF ~HasLiveLooper(s) THEN s
  ELSE ExecuteThenReplicate(s, "breakLoop", "loopBreak", Null)

breakLoopWithin(s, isGM) ==
  IF ~isGM THEN s
  ELSE IF ~HasLiveLooper(s) THEN s
  ELSE ExecuteThenReplicate(s, "breakLoop", "loopBreak", Null)

disableAllLoopsWithin(s, isGM) ==
  IF ~isGM THEN s
  ELSE IF ~HasLiveLooper(s) THEN s
  ELSE ExecuteThenReplicate(s, "disableLooping", "loopDisable", Null)

\* config.segments.findIndex(seg => seg.start === looper.activeLoopSegment.start),
\* zero-based; -1 when the configuration no longer holds the segment.
CurrentIndex(s) ==
  IF s.within.activeLoopSegment <= s.within.segments
    THEN s.within.activeLoopSegment - 1 ELSE -1

nextSegmentWithin(s, isGM) ==
  IF ~isGM THEN s
  ELSE IF ~HasLiveLooper(s) \/ s.within.activeLoopSegment = 0 THEN s
  ELSE IF s.within.segments <= 1 THEN s
  ELSE IF CurrentIndex(s) = -1 THEN s
  ELSE ExecuteThenReplicate(s, "skipToSegmentByIndex", "segmentSkip",
                            (CurrentIndex(s) + 1) % s.within.segments)

previousSegmentWithin(s, isGM) ==
  IF ~isGM THEN s
  ELSE IF ~HasLiveLooper(s) \/ s.within.activeLoopSegment = 0 THEN s
  ELSE IF s.within.segments <= 1 THEN s
  ELSE IF CurrentIndex(s) = -1 THEN s
  ELSE ExecuteThenReplicate(s, "skipToSegmentByIndex", "segmentSkip",
                            (CurrentIndex(s) - 1 + s.within.segments) % s.within.segments)

WithinStep(s) ==
  sequences' = s /\ UNCHANGED <<LooperVars, life, pick, xfade, gaps, cleanups>>

BreakLoopWithin(isGM) ==
  /\ sequences.within.left > 0
  /\ WithinStep(breakLoopWithin(Invoked(sequences, "break", isGM), isGM))

DisableAllLoopsWithin(isGM) ==
  /\ sequences.within.left > 0
  /\ WithinStep(disableAllLoopsWithin(Invoked(sequences, "disable", isGM), isGM))

NextSegmentWithin(isGM) ==
  /\ sequences.within.left > 0
  /\ WithinStep(nextSegmentWithin(Invoked(sequences, "next", isGM), isGM))

PreviousSegmentWithin(isGM) ==
  /\ sequences.within.left > 0
  /\ WithinStep(previousSegmentWithin(Invoked(sequences, "previous", isGM), isGM))

\* The document update of a setFlag request arrives: the record is written.
FlagWritten ==
  /\ sequences.within.pending # << >>
  /\ WithinStep([sequences EXCEPT !.within.pending = Tail(@),
                                  !.within.flags = Append(@, Head(sequences.within.pending)),
                                  !.within.trace = Append(@, "written")])

\* The track's looper is registered, moves to another segment, is destroyed or
\* is unregistered, and the track's configuration is saved with n segments.
LooperMoves(registered, isDestroyed, segment) ==
  /\ registered \/ (~isDestroyed /\ segment = 0)
  /\ WithinStep([sequences EXCEPT !.within.registered = registered,
                                  !.within.isDestroyed = isDestroyed,
                                  !.within.activeLoopSegment = segment])

ConfigSaved(n) == WithinStep([sequences EXCEPT !.within.segments = n])

SequencesCleaned ==
  WithinStep([sequences EXCEPT !.gm = cleanupOldSequences(Older(@))])

InitCommands ==
  /\ LooperIdle /\ pick = NoPick /\ life = InitLife
  /\ xfade = InitXfade /\ gaps = InitGaps /\ cleanups = InitCleanups
  /\ sequences = InitSequences

NextCommands ==
  \/ \E isGM \in BOOLEAN :
       \/ BreakLoopWithin(isGM) \/ DisableAllLoopsWithin(isGM)
       \/ NextSegmentWithin(isGM) \/ PreviousSegmentWithin(isGM)
  \/ FlagWritten
  \/ \E r, d \in BOOLEAN, a \in 0..MaxSegments : LooperMoves(r, d, a)
  \/ \E n \in 1..MaxSegments : ConfigSaved(n)
  \/ SequencesCleaned

SpecCommands == InitCommands /\ [][NextCommands]_vars

InvokedStep == sequences'.within.last.flip # sequences.within.last.flip

MethodOf(command) ==
  IF command = "break" THEN "breakLoop"
  ELSE IF command = "disable" THEN "disableLooping"
  ELSE "skipToSegmentByIndex"

KeyOf(command) ==
  IF command = "break" THEN "loopBreak"
  ELSE IF command = "disable" THEN "loopDisable"
  ELSE "segmentSkip"

\* The invocation has called no looper method and requested no record.
NoEffect ==
  sequences' = [sequences EXCEPT !.within.last = sequences'.within.last,
                                 !.within.left = sequences'.within.left]

\* The looper method was called and then a record requested that carries the
\* successor of the number the client holds for the track.
ExecutedThenRequested(command) ==
  LET w == sequences.within
      v == sequences'.within
  IN /\ v.trace = w.trace \o << MethodOf(command), "setFlag" >>
     /\ Len(v.pending) = Len(w.pending) + 1
     /\ SubSeq(v.pending, 1, Len(w.pending)) = w.pending
     /\ v.pending[Len(v.pending)].key = KeyOf(command)
     /\ v.pending[Len(v.pending)].seq = LastSeq(sequences.gm, LoopTrack) + 1
     /\ LastSeq(sequences'.gm, LoopTrack) = v.pending[Len(v.pending)].seq
     /\ v.flags = w.flags

\* Every record written was requested after a looper call, and earlier.
WrittenAfterCall ==
  LET t == sequences.within.trace
      Count(e, n) == Cardinality({i \in 1..n : t[i] = e})
  IN \A i \in 1..Len(t) :
       /\ t[i] = "setFlag" =>
            i > 1 /\ t[i - 1] \in {"breakLoop", "disableLooping", "skipToSegmentByIndex"}
       /\ t[i] = "written" => Count("written", i) <= Count("setFlag", i)

\* C29: a break, disable, next-segment or previous-segment command issued on a
\* client that is not the GM calls no looper method and writes no flag; on the
\* GM client a command that is carried out calls the looper method first and
\* then requests the command record, which carries the next sequence number of
\* the track, and a record is written only after that.
C29_GMExecutesThenReplicates ==
  /\ [][ InvokedStep =>
           LET c == sequences'.within.last
           IN /\ ~c.isGM => NoEffect
              /\ c.isGM => NoEffect \/ ExecutedThenRequested(c.command)
              /\ (c.isGM /\ HasLiveLooper(sequences) /\ c.command \in {"break", "disable"})
                   => ExecutedThenRequested(c.command) ]_vars
  /\ []WrittenAfterCall

\* The GM's command was carried out and its record written, and then a command
\* was invoked on a client that is not the GM.
C29_Witness ==
  /\ Len(sequences.within.flags) = 1 /\ sequences.within.pending = << >>
  /\ Len(sequences.within.trace) = 3 /\ sequences.within.trace[3] = "written"
  /\ sequences.within.last.command # "none" /\ ~sequences.within.last.isGM
  /\ sequences.within.left = 0
\* ====================================================== Playlist.stopAll
\* main.js: the stopAll override. It marks the playlist as stopping (a mark no
\* other code reads), collects the sounds to stop, runs State.cleanup with
\* every option, then awaits the document updates, then the stopTransition
\* flag, then stops or fades the collected sounds. cleanups.stop is the
\* position of the call, cleanups.toStop the collected sounds, and
\* cleanups.trace goes on after the cleanup's entries.
StopAllOptions ==
  [cleanSilence |-> TRUE, cleanCrossfade |-> TRUE, cleanLoopers |-> TRUE, onlySound |-> 0]

InitStopAll == [trace |-> << >>, options |-> << >>, stop |-> "idle", toStop |-> {}]

\* Step 1: the sounds whose document is playing (their Sound exists or a
\* scheduleCrossfade call waits for it) and the source of the registered gap.
soundsToStop(x, s) ==
  { t \in Tracks : \/ x.snd[t] # "none"
                   \/ \E c \in Calls : x.call[c].pc # "none" /\ x.call[c].ps = t }
    \cup (IF s.reg # 0 /\ s.g[s.reg].sourceSound # 0 THEN {s.g[s.reg].sourceSound} ELSE {})

StopAllStep(x, s, l, c) ==
  /\ xfade' = Release(x) /\ gaps' = s /\ life' = Sweep(l) /\ cleanups' = c
  /\ UNCHANGED <<LooperVars, pick, sequences>>

\* stopAll up to the end of step 2, await cleanupPlaylistState(this, {...}).
StopAllBegins ==
  /\ cleanups.stop = "idle"
  /\ LET c == stateCleanup([x |-> xfade, s |-> gaps, l |-> life, trace |-> << >>],
                           StopAllOptions)
     IN StopAllStep(c.x, c.s, c.l,
                    [trace |-> c.trace, options |-> StopAllOptions, stop |-> "cleaned",
                     toStop |-> soundsToStop(xfade, gaps)])

\* Step 3: updateEmbeddedDocuments(... playing: false ...) and
\* this.update({playing: false}), both awaited.
StopAllMarks ==
  /\ cleanups.stop = "cleaned"
  /\ StopAllStep(xfade, [gaps EXCEPT !.playing = FALSE], life,
                 [cleanups EXCEPT !.trace = @ \o <<"markStopped">>, !.stop = "marked"])

\* Step 4: the authorized GM awaits setFlag(MODULE_ID, "stopTransition", ...).
StopAllReplicates(isAuthorizedGM) ==
  /\ cleanups.stop = "marked"
  /\ StopAllStep(xfade, gaps, life,
                 [cleanups EXCEPT !.trace = IF isAuthorizedGM THEN @ \o <<"replicate">> ELSE @,
                                  !.stop = "replicated"])

RECURSIVE StopSounds(_, _)
StopSounds(x, ts) ==
  IF ts = {} THEN x
  ELSE LET t == CHOOSE u \in ts : TRUE
       IN StopSounds(IF x.snd[t] # "none" THEN StopSound(x, t) ELSE x, ts \ {t})

\* Step 5: each collected sound that has a Sound is stopped (fade duration 0)
\* or handed to fadeOutAndStop, which is not awaited; then the call returns.
StopAllFades(fade) ==
  /\ cleanups.stop = "replicated"
  /\ StopAllStep(IF fade THEN xfade ELSE StopSounds(xfade, cleanups.toStop), gaps,
                 IF fade \/ LoopTrack \notin cleanups.toStop THEN life
                 ELSE [life EXCEPT !.playing = FALSE],
                 [cleanups EXCEPT !.stop = "done"])

\* The Sound of a track whose document is playing is created; not after the
\* documents were marked stopped.
SoundCreated(t) ==
  /\ cleanups.stop \in {"idle", "cleaned"}
  /\ MediaLoaded(t)

\* A scheduleCrossfade call still waiting for the Sound of its track.
XfadeSuspended == scheduleCrossfade(InitXfade, LoopTrack, FALSE)

\* stopAll is called with a crossfade timer armed, a call waiting for the
\* "play" event or for the Sound, a gap being created or running, a looper
\* new, running or retired; what was suspended goes on while stopAll awaits.
InitStop ==
  /\ LooperIdle /\ pick = NoPick /\ sequences = InitSequences
  /\ xfade \in {InitXfade, XfadePlaying, XfadeArmed, XfadeWaiting, XfadeSuspended}
  /\ gaps \in {InitGaps, GapsCreating, GapsRunning}
  /\ life \in {InitLife, LifeNew, LifeRunning, LifeRetired}
  /\ cleanups = InitStopAll

NextStop ==
  \/ StopAllBegins
  \/ StopAllMarks
  \/ \E isAuthorizedGM \in BOOLEAN : StopAllReplicates(isAuthorizedGM)
  \/ \E fade \in BOOLEAN : StopAllFades(fade)
  \/ \E t \in Tracks : SoundCreated(t) \/ SoundStops(t)
  \/ \E c \in Calls : MediaTimeout(c) \/ TimerFires(c)
  \/ \E c \in Calls, past \in BOOLEAN : MediaFound(c, past)
  \/ \E i \in Gaps : GapCreated(i) \/ GapCreationFails(i) \/ TimerExpires(i)
                     \/ CancelledTimerFires(i)
  \/ \E i \in Gaps, loopPlaylist \in BOOLEAN : TeardownDone(i, loopPlaylist)
  \/ \E i \in Instances : StartCallback(i) \/ StartArms(i)

SpecStop == InitStop /\ [][NextStop]_vars

StopAllReturns == cleanups.stop = "replicated" /\ cleanups'.stop = "done"

NothingLeft(x, s, l) ==
  /\ \A c \in Calls : ~x.call[c].timer
  /\ x.reg = 0 /\ x.waiter = 0
  /\ s.reg = 0
  /\ \A i \in Instances : Exists(l, i) => l.inst[i].isDestroyed

CleanupBeforeMarkBeforeReplicate(t) ==
  \A i, j \in 1..Len(t) :
    i < j => /\ t[i] = "markStopped" => t[j] = "replicate"
             /\ t[i] # "replicate"

\* C31: when Playlist.stopAll returns, the playlist has no armed crossfade
\* timer, no registered play-waiter, no registered silent gap and no looper
\* that is not destroyed; and the cleanup's steps all came before the sound
\* documents were marked stopped, which came before the stop was replicated.
C31_StopAllLeavesNothing ==
  [][StopAllReturns =>
       /\ NothingLeft(xfade', gaps', life')
       /\ Did(cleanups'.trace, "markStopped")
       /\ CleanupBeforeMarkBeforeReplicate(cleanups'.trace)]_vars

\* ========================================================= performCrossfade
\* cross-fade.js: performCrossfade(playlist, soundToFade) as a call of its own,
\* with its four awaits and its two setTimeout timers. Times are in ms; the
\* clock advances in steps of FadeCompleteMs. In this model xfade holds the
\* debounce marks (fading), their release timers, the playlist's crossfading
\* flag and the calls in progress.
FadeReleaseMs == 500
FadeCompleteMs == 50
MaxFades == 2
FadeDurations == {0, 100}
Fades == 1..MaxFades
NoDelay == 0 - 1

NoFadeCall == [pc |-> "none", out |-> 0, in |-> 0, fadeMs |-> 0, timer |-> NoDelay,
           sinceFade |-> NoDelay]

InitFades ==
  [fading |-> [t \in Tracks |-> FALSE],
   release |-> [t \in Tracks |-> NoDelay],
   markFade |-> [t \in Tracks |-> 0],
   sinceMark |-> [t \in Tracks |-> 0],
   crossfading |-> FALSE,
   call |-> [k \in Fades |-> NoFadeCall]]

InProgress(x, k) == x.call[k].pc # "none"

FreeFade(x) == CHOOSE k \in Fades : ~InProgress(x, k) /\ \A j \in Fades : ~InProgress(x, j) => k <= j

\* State.markSoundAsFading(sound) as performCrossfade uses it: the check, the
\* mark and setTimeout(() => State.clearFadingSound(...), fadeMs + 500).
markSoundAsFading(x, out, fadeMs) ==
  [x EXCEPT !.fading[out] = TRUE, !.release[out] = fadeMs + FadeReleaseMs,
            !.markFade[out] = fadeMs, !.sinceMark[out] = 0]

\* performCrossfade up to await soundToPlay.update(...): the early returns,
\* the debounce, the choice of the next track in playback order 1..MaxTracks.
performCrossfadeBegin(x, out, hasSound, isOwner, fadeMs, loopPlaylist) ==
  IF ~hasSound \/ ~isOwner \/ fadeMs <= 0 THEN x
  ELSE IF x.fading[out] THEN x
  ELSE LET x1 == markSoundAsFading(x, out, fadeMs)
           soundToPlay == IF out < MaxTracks THEN out + 1
                          ELSE IF loopPlaylist THEN 1 ELSE 0
       IN IF soundToPlay = 0 THEN x1
          ELSE [x1 EXCEPT
                  !.crossfading = TRUE,
                  !.call[FreeFade(x)] = [NoFadeCall EXCEPT !.pc = "update", !.out = out,
                                                           !.in = soundToPlay, !.fadeMs = fadeMs]]

\* State.clearPlaylistCrossfading(playlist), by the finally block of call k
\* or by its completion timer.
clearPlaylistCrossfading(x, k) ==
  [x EXCEPT !.crossfading = FALSE, !.call[k] = NoFadeCall]

FadeOutcomes == {"ok", "throw", "noMedia", "outStopped", "noGain"}

\* One await of call k has its value, and the call goes on to its next await,
\* to its return or to the setTimeout of step 5.
performCrossfadeResume(x, k, outcome) ==
  LET pc == x.call[k].pc
  IN IF outcome # "ok" THEN clearPlaylistCrossfading(x, k)
     ELSE IF pc = "update" THEN [x EXCEPT !.call[k].pc = "media"]
     ELSE IF pc = "media" THEN [x EXCEPT !.call[k].pc = "play"]
     ELSE IF pc = "play" THEN [x EXCEPT !.call[k].pc = "docUpdate", !.call[k].sinceFade = 0]
     ELSE [x EXCEPT !.call[k].pc = "timer",
                    !.call[k].timer = x.call[k].fadeMs + FadeCompleteMs]

\* What can come out of the await the call is at.
CanSettle(pc, outcome) ==
  \/ outcome = "ok"
  \/ pc \in {"update", "play", "docUpdate"} /\ outcome = "throw"
  \/ pc = "media" /\ outcome = "noMedia"
  \/ pc = "play" /\ outcome \in {"outStopped", "noGain"}

TimerDue(x) ==
  \/ \E t \in Tracks : x.release[t] = 0
  \/ \E k \in Fades : x.call[k].timer = 0

Later(d) == IF d > 0 THEN d - FadeCompleteMs ELSE d

Elapsed(d, cap) == IF d = NoDelay \/ d >= cap THEN d ELSE d + FadeCompleteMs

\* FadeCompleteMs pass.
Advance(x) ==
  [x EXCEPT !.release = [t \in Tracks |-> Later(x.release[t])],
            !.sinceMark = [t \in Tracks |->
                             IF x.fading[t]
                               THEN Elapsed(x.sinceMark[t], x.markFade[t] + 2 * FadeReleaseMs)
                             ELSE x.sinceMark[t]],
            !.call = [k \in Fades |->
                        [x.call[k] EXCEPT
                           !.timer = Later(@),
                           !.sinceFade = Elapsed(@, x.call[k].fadeMs + 2 * FadeCompleteMs)]]]

FadeStep(x) == xfade' = x /\ UNCHANGED <<LooperVars, life, pick, sequences, gaps, cleanups>>

PerformCrossfade(out, hasSound, isOwner, fadeMs, loopPlaylist) ==
  /\ \E k \in Fades : ~InProgress(xfade, k)
  /\ FadeStep(performCrossfadeBegin(xfade, out, hasSound, isOwner, fadeMs, loopPlaylist))

AwaitSettles(k, outcome) ==
  /\ xfade.call[k].pc \in {"update", "media", "play", "docUpdate"}
  /\ CanSettle(xfade.call[k].pc, outcome)
  /\ FadeStep(performCrossfadeResume(xfade, k, outcome))

\* The setTimeout of step 5: the flag is cleared, the outgoing sound stopped.
CrossfadeCompletes(k) ==
  /\ xfade.call[k].pc = "timer" /\ xfade.call[k].timer = 0
  /\ FadeStep(clearPlaylistCrossfading(xfade, k))

\* The setTimeout of the debounce: State.clearFadingSound(soundToFade.sound).
DebounceReleased(t) ==
  /\ xfade.release[t] = 0
  /\ FadeStep([xfade EXCEPT !.fading[t] = FALSE, !.release[t] = NoDelay,
                            !.markFade[t] = 0, !.sinceMark[t] = 0])

TimePasses ==
  /\ ~TimerDue(xfade)
  /\ Advance(xfade) # xfade
  /\ FadeStep(Advance(xfade))

InitFade ==
  /\ LooperIdle /\ pick = NoPick /\ life = InitLife /\ sequences = InitSequences
  /\ gaps = InitGaps /\ cleanups = InitCleanups
  /\ xfade = InitFades

NextFade ==
  \/ \E out \in Tracks, hasSound \in BOOLEAN, isOwner \in BOOLEAN, fadeMs \in FadeDurations,
        loopPlaylist \in BOOLEAN : PerformCrossfade(out, hasSound, isOwner, fadeMs, loopPlaylist)
  \/ \E k \in Fades, outcome \in FadeOutcomes : AwaitSettles(k, outcome)
  \/ \E k \in Fades : CrossfadeCompletes(k)
  \/ \E t \in Tracks : DebounceReleased(t)
  \/ TimePasses

\* Every await settles, every timer that is due fires, and time goes on.
SpecFade ==
  /\ InitFade /\ [][NextFade]_vars
  /\ \A k \in Fades : WF_vars(\E outcome \in FadeOutcomes : AwaitSettles(k, outcome))
  /\ \A k \in Fades : WF_vars(CrossfadeCompletes(k))
  /\ \A t \in Tracks : WF_vars(DebounceReleased(t))
  /\ WF_vars(TimePasses)

Started(k) == ~InProgress(xfade, k) /\ InProgress(xfade', k)

Aborted(k) == xfade.call[k].pc \in {"update", "media", "play", "docUpdate"} /\ ~InProgress(xfade', k)

Completed(k) == xfade.call[k].pc = "timer" /\ ~InProgress(xfade', k)

\* C32: no two performCrossfade calls for the same outgoing sound are in
\* progress at once; a performCrossfade for a sound that is marked as fading
\* starts no track; the mark is released fadeMs + 500 ms after it was taken.
C32_OneCrossfadePerSound ==
  /\ [](\A j, k \in Fades :
          (j # k /\ InProgress(xfade, j) /\ InProgress(xfade, k))
            => xfade.call[j].out # xfade.call[k].out)
  /\ [][\A k \in Fades : Started(k) => ~xfade.fading[xfade'.call[k].out]]_vars
  /\ [][\A t \in Tracks :
          (xfade.fading[t] /\ ~xfade'.fading[t])
            => xfade.sinceMark[t] = xfade.markFade[t] + FadeReleaseMs]_vars

\* C33: the crossfading flag that performCrossfade sets is cleared again: in
\* the step in which the call aborts or throws, or by the timer, fadeMs + 50 ms
\* after the fade started.
C33_CrossfadingFlagCleared ==
  /\ xfade.crossfading ~> ~xfade.crossfading
  /\ [][\A k \in Fades :
          /\ Aborted(k) => ~xfade'.crossfading
          /\ Completed(k) => /\ ~xfade'.crossfading
                             /\ xfade.call[k].sinceFade = xfade.call[k].fadeMs + FadeCompleteMs]_vars
\* ======================================================= exhaustive shuffle
\* advanced-shuffle.js: the exhaustive pattern behind Playlist.playbackOrder.
\* In this model pick holds the playlist's real tracks (sounds), whether a
\* temporary gap track exists, the shuffle state (currentCycle,
\* playedThisCycle), the track that plays (now), what was played since every
\* real track had played (since; roundDone: every real track of the playlist
\* has played, and the next start begins a round) and what was played since
\* the last order was generated (inCycle, cycleDone).
MaxShuffleTracks == 3
ShuffleTracks == 1..MaxShuffleTracks

Orders(S) ==
  { p \in [1..Cardinality(S) -> S] : \A i, j \in 1..Cardinality(S) : p[i] = p[j] => i = j }

ShuffleOrders == UNION { Orders(S) : S \in SUBSET ShuffleTracks }

InitShuffleState(S) ==
  [sounds |-> S, gap |-> FALSE, currentCycle |-> << >>, playedThisCycle |-> {},
   now |-> 0, since |-> {}, roundDone |-> TRUE, inCycle |-> {}, cycleDone |-> TRUE,
   cycles |-> FALSE, complete |-> TRUE, plays |-> FALSE, repeated |-> FALSE]

\* playlist.sounds.size: the gap track counts.
SoundsSize(s) == Cardinality(s.sounds) + (IF s.gap THEN 1 ELSE 0)

\* ExhaustiveShuffle.generate(playlist, state); shuffled is what
\* fisherYatesShuffle makes of the ids of the tracks that are no gap.
ExhaustiveGenerate(s, shuffled) ==
  IF Len(s.currentCycle) = 0 \/ Cardinality(s.playedThisCycle) >= Cardinality(s.sounds)
    THEN [s EXCEPT !.currentCycle = shuffled, !.playedThisCycle = {},
                   !.cycles = ~@, !.inCycle = {}, !.cycleDone = FALSE,
                   !.complete = s.cycleDone]
  ELSE s

\* AdvancedShuffle.generateOrder(playlist) with the exhaustive pattern active:
\* the cached order is returned if it holds exactly the playlist's sounds.
generateOrder(s, shuffled) ==
  IF /\ Len(s.currentCycle) > 0
     /\ \A i \in 1..Len(s.currentCycle) : s.currentCycle[i] \in s.sounds
     /\ Len(s.currentCycle) = SoundsSize(s)
    THEN s
  ELSE ExhaustiveGenerate(s, shuffled)

\* ExhaustiveShuffle.markPlayed(playlist, trackId, state)
markPlayed(s, t) ==
  LET s1 == [s EXCEPT !.playedThisCycle = @ \cup {t}]
  IN IF Cardinality(s1.playedThisCycle) >= SoundsSize(s1)
       THEN [s1 EXCEPT !.currentCycle = << >>]
     ELSE s1

\* AdvancedShuffle.handleTracksChanged(playlist)
handleTracksChanged(s) ==
  LET Kept(id) == id \in s.sounds
  IN [s EXCEPT !.playedThisCycle = @ \cap s.sounds,
               !.currentCycle = SelectSeq(@, Kept)]

PositionIn(order, t) ==
  IF \E i \in 1..Len(order) : order[i] = t
    THEN CHOOSE i \in 1..Len(order) : order[i] = t
  ELSE 0

\* Track t starts: the Sound.play wrapper marks it played.
StartTrack(s, t) ==
  LET round == IF s.roundDone THEN {t} ELSE s.since \cup {t}
  IN [markPlayed(s, t) EXCEPT
        !.now = t, !.plays = ~@,
        !.repeated = ~s.roundDone /\ t \in s.since,
        !.since = round, !.roundDone = s.sounds \subseteq round,
        !.inCycle = @ \cup {t}, !.cycleDone = @ \/ s.sounds \subseteq (s.inCycle \cup {t})]

\* The advance after the playing track: the track after it in
\* playlist.playbackOrder, or with playlist loop the first of the order.
NextInOrder(s, shuffled) ==
  LET s1 == generateOrder(s, shuffled)
      order == s1.currentCycle
      idx == PositionIn(order, s1.now) + 1
  IN StartTrack(s1, IF idx <= Len(order) THEN order[idx] ELSE order[1])

ShuffleStep(s) == pick' = s /\ UNCHANGED <<LooperVars, life, PlaylistVars>>

\* playAll: the first track of the playback order starts.
ShufflePlayAll(shuffled) ==
  /\ pick.now = 0 /\ shuffled \in Orders(pick.sounds)
  /\ LET s1 == generateOrder(pick, shuffled)
     IN ShuffleStep(StartTrack(s1, s1.currentCycle[1]))

\* The playing track ends, or the gap after it, and the playlist advances.
ShuffleAdvance(shuffled) ==
  /\ pick.now # 0 /\ shuffled \in Orders(pick.sounds)
  /\ ShuffleStep(NextInOrder(pick, shuffled))

\* The interface reads playlist.playbackOrder.
PlaybackOrderRead(shuffled) ==
  /\ shuffled \in Orders(pick.sounds)
  /\ ShuffleStep(generateOrder(pick, shuffled))

\* createPlaylistSound of a real track.
TrackAdded(t) ==
  /\ t \notin pick.sounds
  /\ ShuffleStep(handleTracksChanged([pick EXCEPT !.sounds = @ \cup {t}]))

\* deletePlaylistSound of a real track that does not play.
TrackRemoved(t) ==
  /\ t \in pick.sounds /\ t # pick.now /\ pick.sounds # {t}
  /\ LET S == pick.sounds \ {t}
     IN ShuffleStep(handleTracksChanged(
          [pick EXCEPT !.sounds = S, !.since = @ \ {t}, !.inCycle = @ \ {t},
                       !.roundDone = @ \/ S \subseteq pick.since,
                       !.cycleDone = @ \/ S \subseteq pick.inCycle]))

\* A temporary gap track is created or deleted; the hooks ignore it.
GapTrackCreated == ~pick.gap /\ ShuffleStep([pick EXCEPT !.gap = TRUE])

GapTrackDeleted == pick.gap /\ ShuffleStep([pick EXCEPT !.gap = FALSE])

InitShuffle ==
  /\ LooperIdle /\ life = InitLife /\ PlaylistIdle
  /\ \E S \in SUBSET ShuffleTracks : S # {} /\ pick = InitShuffleState(S)

NextShuffle ==
  \/ \E shuffled \in ShuffleOrders : ShufflePlayAll(shuffled)
  \/ \E shuffled \in ShuffleOrders : ShuffleAdvance(shuffled)
  \/ \E shuffled \in ShuffleOrders : PlaybackOrderRead(shuffled)
  \/ \E t \in ShuffleTracks : TrackAdded(t)
  \/ \E t \in ShuffleTracks : TrackRemoved(t)
  \/ GapTrackCreated
  \/ GapTrackDeleted

SpecShuffle == InitShuffle /\ [][NextShuffle]_vars

\* C34: with the exhaustive pattern no track starts a second time before
\* every real track of the playlist has played once, and a new order is
\* generated only when every real track has played since the last one was
\* generated; also when gap tracks come and go and real tracks are added or
\* removed.
C34_ExhaustiveCycle ==
  /\ ~pick.repeated
  /\ pick.complete
\* ======================================================== the two buffers
\* The instance has started: start() has returned with soundA assigned.
LooperStarted == tasks.start.pc = "none" /\ looper.soundA # Null

\* C35: while a started LoopingSound of a playing, unpaused track is neither
\* destroyed nor crossfading, its active buffer is ps.sound and its alternate
\* buffer does not play.  (That the active buffer plays is left out: a buffer
\* that ran to the end of the file is stopped by the engine, not by the looper.)
C35_ActiveBufferPlaysAlone ==
  (/\ LooperStarted /\ ps.playing /\ log.paused.st # "paused"
   /\ ~looper.isDestroyed /\ ~looper.isCrossfading)
    => /\ ps.sound = activeSound(World)
       /\ ~Playing(World, targetSound(World))

\* ======================================================== one handoff at a time
\* Call k is inside _executeCrossfadeAndHandoff: it has set isCrossfading and
\* waits for targetSound.play() or for its handoff timer.
InHandoff(k) == tasks.x[k].pc \in {"play", "handoff"}

\* C36: at most one execution of the handoff protocol is in progress on a
\* LoopingSound at any time.
C36_OneHandoffAtATime ==
  \A j, k \in TaskIds : (InHandoff(j) /\ InHandoff(k)) => j = k

\* ======================================================== a cancelled looper's continuation
\* cancelLoopWithin, and step 3 of State.cleanup: the instance the registry
\* holds is flagged isAborted and destroy() is called on it, which returns at
\* once because _fadeOutAndAdvance has set isDestroyed already.
abortLooper(s) == [s EXCEPT !.fo.isAborted = TRUE]

\* cleanupPlaylistState: State.cleanup with cleanSilence and cleanLoopers.
cleanupPlaylistState(s) == abortLooper(cleanSilence(s))

\* The stopAll override: State.cleanup with every option, then playing: false.
stopAll(s) == [cleanupPlaylistState(s) EXCEPT !.playing = FALSE]

\* The looper's _fadeOutAndAdvance is suspended on one of its waits.
FadeOutSuspended == gaps.fo.pc \in {"fade", "gap", "wait"}

LooperCancelled ==
  /\ FadeOutSuspended /\ ~gaps.fo.isAborted
  /\ SilenceStep(abortLooper(gaps))

PlaylistCleaned ==
  /\ FadeOutSuspended /\ ~gaps.fo.isAborted
  /\ SilenceStep(cleanupPlaylistState(gaps))

PlaylistStopped ==
  /\ FadeOutSuspended /\ ~gaps.fo.isAborted
  /\ SilenceStep(stopAll(gaps))

NextAbort ==
  \/ \E i \in Gaps : GapCreated(i) \/ GapCreationFails(i) \/ TimerExpires(i)
  \/ \E i \in Gaps, loopPlaylist \in BOOLEAN : TeardownDone(i, loopPlaylist)
  \/ \E track \in Tracks, mode \in PlaybackModes, isGM \in BOOLEAN,
        fadeMs \in 0..1, loopPlaylist \in BOOLEAN :
       FadeOutAndAdvanceBegins(track, mode, isGM, fadeMs, loopPlaylist)
  \/ \E applicable \in BOOLEAN, loopPlaylist \in BOOLEAN :
       FadedOutAndStopped(applicable, loopPlaylist)
  \/ \E loopPlaylist \in BOOLEAN :
       AdvanceWaitDone(loopPlaylist) \/ SilencePromiseResolved(loopPlaylist)
  \/ LooperCancelled
  \/ PlaylistCleaned
  \/ PlaylistStopped

SpecAbort == InitSilence /\ [][NextAbort]_vars

\* The looper's continuation creates a silent gap.
LooperInjectsGap == gaps.fo.pc = "fade" /\ gaps'.fo.pc = "gap"

\* C37: after the looper was cancelled, or its playlist cleaned up or stopped,
\* its _fadeOutAndAdvance continuation neither advances the playlist (next
\* track, restart, stop) nor injects a silent gap.
C37_CancelledLooperStaysQuiet ==
  [][gaps.fo.isAborted => ~LooperAdvancedStep /\ ~LooperInjectsGap]_vars

\* ======================================================== fresh commands
\* The receiving client has accepted the first n commands issued for p, each
\* once and in order.
AcceptedAllBefore(p, k) == sequences.applied[p] = [i \in 1..(k - 1) |-> i]

\* C38: a command drawn with getNextSequence passes shouldProcessAction on a
\* client that has accepted all earlier commands for the playlist, whatever
\* cleanupOldSequences removed on either client.
C38_FreshCommandAccepted ==
  \A p \in Playlists : \A k \in 1..Len(sequences.issued[p]) :
    (~sequences.deleted[p] /\ AcceptedAllBefore(p, k))
      => shouldProcessAction(sequences.client, p, sequences.issued[p][k]).ok

\* ======================================================== a paused looper
Paused == log.paused.st = "paused"

\* C39: between pause() and the next resume() neither the boundary timer nor
\* the crossfade timer (scheduled callback or settle delay) is armed.
C39_NoTimerWhilePaused == Paused => ~MainArmed /\ ~CrossfadeArmed

====
